---- MODULE Spec2Model ----
(***************************************************************************)
(* A state-machine model of the statement/cursor engine of                 *)
(* src/c_src/dpiStmt.c: one dpiStmt, the value resources (dpiVar) it binds *)
(* and defines, its connection, and the protocol layer it drives.          *)
(*                                                                         *)
(* Every internal function of dpiStmt.c is an operator that takes the      *)
(* machine m (the statement, the value resources, the protocol side, the   *)
(* calls made so far, the return code) and returns the machine after the   *)
(* call.  Every public function is an action.  The outcome of each         *)
(* protocol call is drawn by the action: m.fault names the one call site   *)
(* that fails (and on which visit), m.execOut the results of successive    *)
(* protocol execute calls.                                                 *)
(***************************************************************************)
EXTENDS Integers, Sequences, FiniteSets, TLC

VARIABLES stmt, vars, conn, oci, last

allVars == <<stmt, vars, conn, oci, last>>

(***************************************************************************)
(* Bounds of the model.                                                    *)
(***************************************************************************)
MaxPos == 1            \* bind positions 1..MaxPos (0 is the invalid one)
MaxNames == 1          \* bind names <<1>>..<<MaxNames>>
NumCallerVars == 2     \* value resources created by the caller
NumStmtVars == 1       \* value resources the statement may allocate itself
MaxIters == 2          \* executeMany iterations, and array size of caller vars
MaxHandles == 2        \* protocol handles ever prepared (1 + recoveries)
MaxReleases == 2       \* releases of one protocol handle that are told apart
MaxCols == 2           \* query columns the server may report
MaxFaultVisit == 2     \* the injected failure hits visit 1..MaxFaultVisit of a site
MaxRows == 2           \* rows of the result set of a query
MaxRowCount == 3       \* rows a statement delivers before the model stops fetching

(***************************************************************************)
(* Program constants.                                                      *)
(***************************************************************************)
NULL == 0
DPI_SUCCESS == 0
DPI_FAILURE == -1
ORA_00001 == 1         \* unique constraint violated
ORA_01007 == 1007      \* variable not in select list
ORA_OTHER == ORA_01007 + 1   \* stands for every other server error code
BIND_VARS_CHUNK == 8   \* growth of the bind array
\* the default fetch array size is the largest array the model uses
DPI_DEFAULT_FETCH_ARRAY_SIZE == MaxIters + 1

Vars == 1..(NumCallerVars + NumStmtVars)
CallerVars == 1..NumCallerVars
Handles == 1..MaxHandles

StmtTypes == {"SELECT", "INSERT", "BEGIN"}
IsPlsql(t) == t \in {"BEGIN", "DECLARE", "CALL"}

\* names are byte strings with an explicit length; byte 0 is NUL
BindNames == {<<c>> : c \in 1..MaxNames}
NoName == <<>>

(***************************************************************************)
(* The machine threaded through the internal functions.                    *)
(***************************************************************************)
NoFault == [site |-> "none", n |-> 0]
NoError == [kind |-> "", code |-> 0, site |-> ""]
\* the output parameters of the fetch functions
NoOut == [found |-> FALSE, index |-> 0, numRows |-> 0, moreRows |-> FALSE,
          value |-> 0]

\* o, the outcomes the environment draws for one call of a public function:
\*   fault   the call site that fails, and on which of its visits
\*   ex      the results of the successive protocol execute calls
\*   failed  the iterations of an array execution the server rejects
\*   uaf     what a read of a freed value resource does ("crash", or
\*           "stale": the old content is still there)
\*   numCols the number of columns the server describes
\*   rows    the number of rows of the result set of a query
Machine(o) ==
    [stmt |-> stmt, vars |-> vars, conn |-> conn, oci |-> oci,
     trace |-> <<>>, rc |-> DPI_SUCCESS, err |-> NoError, o |-> o,
     visits |-> 0, execOut |-> o.ex, dmlErrors |-> <<>>, out |-> NoOut,
     crashed |-> FALSE]

Ok(m) == [m EXCEPT !.rc = DPI_SUCCESS]

\* dpiError__set: record the error in the error buffer and return DPI_FAILURE
dpiError__set(m, e) ==
    [m EXCEPT !.rc = DPI_FAILURE, !.err = [kind |-> e, code |-> 0, site |-> ""]]

\* a protocol error: the server's code, and the call that raised it
OraError(m, code, s) ==
    [m EXCEPT !.rc = DPI_FAILURE, !.err = [kind |-> "ORA", code |-> code, site |-> s]]

\* a dereference of a null pointer ends the process
Crash(m) ==
    [m EXCEPT !.rc = DPI_FAILURE, !.crashed = TRUE,
              !.err = [kind |-> "SIGSEGV", code |-> 0, site |-> ""]]

\* a call made by the statement: a protocol call or a reference count change
Call(m, c, h, v) == [m EXCEPT !.trace = Append(@, [call |-> c, h |-> h, v |-> v])]

\* a visit of call site s: the visit fails when it is the injected fault
Fails(m, s) == m.o.fault.site = s /\ m.visits + 1 = m.o.fault.n
Visit(m, s) == IF m.o.fault.site = s THEN [m EXCEPT !.visits = @ + 1] ELSE m

\* a protocol call at site s on handle h (for value resource v): logged,
\* failing with a protocol error when it is the injected fault
Oci(m, s, h, v) ==
    LET m1 == Visit(Call(m, s, h, v), s) IN
    IF Fails(m, s) THEN OraError(m1, ORA_OTHER, s) ELSE Ok(m1)

\* a local step that may fail (an allocation, a data conversion): not logged
Step(m, s, e) ==
    IF Fails(m, s) THEN dpiError__set(Visit(m, s), e) ELSE Ok(Visit(m, s))

(***************************************************************************)
(* Reference counting (dpiGen__setRefCount): a resource whose count        *)
(* reaches zero is freed.                                                  *)
(***************************************************************************)
dpiGen__setRefCount(m, v, inc) ==
    LET n == m.vars[v].refCount + inc
        m1 == Call(m, IF inc > 0 THEN "addRef" ELSE "release", 0, v) IN
    IF m.vars[v].st # "live"
    THEN \* a count change on freed memory: the count is garbage from now on
         [m1 EXCEPT !.vars[v].doubleFree = TRUE]
    ELSE [m1 EXCEPT !.vars[v].refCount = n,
                    !.vars[v].st = IF n <= 0 THEN "freed" ELSE "live"]

(***************************************************************************)
(* dpiStmt__bind                                                           *)
(***************************************************************************)
\* strncmp(a, b, n) = 0: equal up to the first NUL or n bytes
StrncmpEqual(a, b, n) ==
    \A i \in 1..n : (\A j \in 1..(i - 1) : a[j] # 0) => a[i] = b[i]

EntryMatches_inverted(entry, pos, name, nameLength) ==
    /\ entry.pos = pos
    /\ entry.nameLength = nameLength
    /\ ~(nameLength > 0 /\ StrncmpEqual(entry.name, name, nameLength))

\* lines 78-82: the test of the lookup loop
EntryMatches(entry, pos, name, nameLength) ==
    /\ entry.pos = pos
    /\ entry.nameLength = nameLength
    /\ ~(nameLength > 0 /\ ~StrncmpEqual(entry.name, name, nameLength))

\* lines 75-84: the index of the first matching entry, 0 when not found
FindEntry(bindVars, pos, name, nameLength) ==
    LET hits == {i \in 1..Len(bindVars) :
                    EntryMatches(bindVars[i], pos, name, nameLength)} IN
    IF hits = {} THEN 0 ELSE CHOOSE i \in hits : \A j \in hits : i <= j

AlreadyBound_never(entry, var) == FALSE

\* line 90: the entry is already bound to this resource
AlreadyBound(entry, var) == entry.var = var

ReleasePrevious_skip(m, idx) == [m EXCEPT !.stmt.bindVars[idx].var = NULL]

\* lines 94-97: release the previously bound resource, if any
ReleasePrevious(m, idx) ==
    IF m.stmt.bindVars[idx].var # NULL
    THEN [dpiGen__setRefCount(m, m.stmt.bindVars[idx].var, -1)
            EXCEPT !.stmt.bindVars[idx].var = NULL]
    ELSE m

\* lines 102-129: append a new entry, growing the array when it is full
AddEntry(m, pos, name, nameLength) ==
    LET grow == Len(m.stmt.bindVars) = m.stmt.allocatedBindVars
        m1 == IF grow THEN Step(m, "callocBindVars", "DPI_ERR_NO_MEMORY") ELSE Ok(m)
        m2 == IF grow THEN [m1 EXCEPT !.stmt.allocatedBindVars = @ + BIND_VARS_CHUNK]
              ELSE m1
        m3 == IF name # NoName THEN Step(m2, "mallocName", "DPI_ERR_NO_MEMORY")
              ELSE m2 IN
    IF m1.rc < 0 THEN m1
    ELSE IF m3.rc < 0 THEN m3
    ELSE [m3 EXCEPT !.stmt.bindVars = Append(@,
             [var |-> NULL, pos |-> pos, name |-> name,
              nameLength |-> IF name # NoName THEN nameLength ELSE 0])]

\* lines 133-197: convert, take the reference, attach and bind on the server
BindEntry(m, idx, var, addReference, pos, name) ==
    LET lob == m.vars[var].isDynamic /\ IsPlsql(m.stmt.statementType)
        m1 == IF lob THEN Step(m, "convertToLob", "DPI_ERR_CONVERT_TO_LOB") ELSE m
        m2 == IF addReference THEN dpiGen__setRefCount(m1, var, 1) ELSE m1
        m3 == [m2 EXCEPT !.stmt.bindVars[idx].var = var]
        m4 == Oci(m3, IF pos > 0 THEN "bindByPos" ELSE "bindByName",
                  m3.stmt.handle, var)
        m5 == Oci(m4, "bindAttr", m3.stmt.handle, var) IN
    IF m1.rc < 0 THEN m1
    ELSE IF m4.rc < 0 THEN m4
    ELSE m5

ZeroLengthName_never(pos, nameLength) == FALSE

\* line 70: neither a position nor a name
ZeroLengthName(pos, nameLength) == pos = 0 /\ nameLength = 0

dpiStmt__bind(m, var, addReference, pos, name, nameLength) ==
    IF ZeroLengthName(pos, nameLength)
    THEN dpiError__set(m, "DPI_ERR_NOT_SUPPORTED")
    ELSE LET idx == FindEntry(m.stmt.bindVars, pos, name, nameLength) IN
         IF idx # 0 /\ AlreadyBound(m.stmt.bindVars[idx], var)
         THEN Ok(m)
         ELSE LET m1 == IF idx # 0 THEN Ok(ReleasePrevious(m, idx))
                        ELSE AddEntry(m, pos, name, nameLength) IN
              IF m1.rc < 0 THEN m1
              ELSE BindEntry(m1, IF idx # 0 THEN idx ELSE Len(m1.stmt.bindVars),
                             var, addReference, pos, name)

(***************************************************************************)
(* Value resources (dpiVar): allocation and destruction.                   *)
(***************************************************************************)
FreeVarIds(m) == {v \in Vars : m.vars[v].st = "none"}

\* dpiVar__allocate: a new resource with one reference, held by the caller
\* of the allocation; the new resource is the smallest unused id, and there is
\* no memory left when every id is used
NewVar(m) == CHOOSE v \in FreeVarIds(m) : \A w \in FreeVarIds(m) : v <= w

dpiVar__allocate(m, maxArraySize) ==
    LET m1 == Step(m, "varAllocate", "DPI_ERR_NO_MEMORY") IN
    IF m1.rc < 0 THEN m1
    ELSE IF FreeVarIds(m) = {} THEN dpiError__set(m1, "DPI_ERR_NO_MEMORY")
    ELSE [m1 EXCEPT !.vars[NewVar(m)] =
             [st |-> "live", refCount |-> 1, maxArraySize |-> maxArraySize,
              isDynamic |-> FALSE, isSelfStmt |-> FALSE, doubleFree |-> FALSE,
              byStmt |-> TRUE]]

\* dpiVar__free: destroy the resource whatever its count
dpiVar__free(m, v) ==
    [Call(m, "varFree", 0, v) EXCEPT !.vars[v].st = "freed", !.vars[v].refCount = 0]

(***************************************************************************)
(* dpiStmt__checkOpen                                                      *)
(***************************************************************************)
dpiStmt__checkOpen_handleOnly(m) ==
    IF m.stmt.handle = NULL THEN dpiError__set(m, "DPI_ERR_STMT_CLOSED") ELSE Ok(m)

dpiStmt__checkOpen(m) ==
    IF m.stmt.handle = NULL THEN dpiError__set(m, "DPI_ERR_STMT_CLOSED")
    ELSE IF ~m.conn.handle \/ m.conn.closing
    THEN dpiError__set(m, "DPI_ERR_NOT_CONNECTED")
    ELSE Ok(m)

(***************************************************************************)
(* dpiStmt__clearBatchErrors, dpiStmt__clearBindVars,                      *)
(* dpiStmt__clearQueryVars                                                 *)
(***************************************************************************)
dpiStmt__clearBatchErrors(m) ==
    [m EXCEPT !.stmt.batchErrors = <<>>, !.stmt.numBatchErrors = 0]

\* lines 245-249: drop the reference of every entry from index i on; an
\* entry without a resource is dereferenced all the same
RECURSIVE ReleaseBindVars(_, _)
ReleaseBindVars(m, i) ==
    IF i > Len(m.stmt.bindVars) \/ m.crashed THEN m
    ELSE LET v == m.stmt.bindVars[i].var IN
         IF v = NULL THEN Crash(m)
         ELSE ReleaseBindVars(dpiGen__setRefCount(m, v, -1), i + 1)

dpiStmt__clearBindVars(m) ==
    LET m1 == ReleaseBindVars(m, 1) IN
    IF m1.crashed THEN m1
    ELSE [m1 EXCEPT !.stmt.bindVars = <<>>, !.stmt.allocatedBindVars = 0]

\* lines 267-276: drop the reference of every defined column from i on
RECURSIVE ReleaseQueryVars(_, _)
ReleaseQueryVars(m, i) ==
    IF i > m.stmt.numQueryVars THEN m
    ELSE LET v == m.stmt.queryVars[i] IN
         ReleaseQueryVars(
             IF v # NULL
             THEN [dpiGen__setRefCount(m, v, -1) EXCEPT !.stmt.queryVars[i] = NULL]
             ELSE m, i + 1)

dpiStmt__clearQueryVars_slotsOnly(m) ==
    [m EXCEPT !.stmt.queryVars = <<>>, !.stmt.queryVarsPtr = FALSE,
              !.stmt.queryInfo = FALSE, !.stmt.numQueryVars = 0]

dpiStmt__clearQueryVars(m) ==
    LET m1 == IF m.stmt.queryVarsPtr THEN ReleaseQueryVars(m, 1) ELSE m IN
    [m1 EXCEPT !.stmt.queryVars = <<>>, !.stmt.queryVarsPtr = FALSE,
               !.stmt.queryInfo = FALSE, !.stmt.numQueryVars = 0]

(***************************************************************************)
(* The protocol side of a statement handle.                                *)
(***************************************************************************)
\* dpiOci__stmtRelease: give the handle back, deleting it from the statement
\* cache when the statement is marked; checkError = FALSE swallows a failure
dpiOci__stmtRelease(m, checkError) ==
    LET h == m.stmt.handle
        m1 == Oci(m, "stmtRelease", h, IF m.stmt.deleteFromCache THEN 1 ELSE 0) IN
    IF m1.rc < 0 THEN (IF checkError THEN m1 ELSE Ok(m1))
    ELSE [m1 EXCEPT !.oci.handles[h] =
             [st |-> "released", releases |-> IF @.releases < MaxReleases
                                              THEN @.releases + 1 ELSE @.releases]]

\* dpiOci__stmtPrepare2: a new handle in stmt->handle, NULL on failure
dpiOci__stmtPrepare2(m) ==
    LET m1 == Oci(m, "stmtPrepare2", m.oci.nextHandle, 0) IN
    IF m.oci.nextHandle > MaxHandles
    THEN [OraError(m1, ORA_OTHER, "stmtPrepare2") EXCEPT !.stmt.handle = NULL]
    ELSE IF m1.rc < 0 THEN [m1 EXCEPT !.stmt.handle = NULL]
    ELSE [m1 EXCEPT !.stmt.handle = m.oci.nextHandle,
                    !.oci.handles[m.oci.nextHandle].st = "live",
                    !.oci.nextHandle = @ + 1]

(***************************************************************************)
(* dpiStmt__close                                                          *)
(***************************************************************************)
\* lines 310-313
ReleaseConn(m) ==
    IF m.stmt.conn
    THEN [Call(m, "releaseConn", 0, 0) EXCEPT !.conn.refCount = @ - 1,
                                             !.stmt.conn = FALSE]
    ELSE m

dpiStmt__close(m, propagateErrors) ==
    LET m1 == dpiStmt__clearBindVars(dpiStmt__clearBatchErrors(m))
        m2 == dpiStmt__clearQueryVars(m1)
        m3 == IF m2.stmt.isOwned THEN Ok(Call(m2, "handleFree", m2.stmt.handle, 0))
              ELSE dpiOci__stmtRelease(m2, propagateErrors)
        m4 == [Call(m3, "decrementOpenChildCount", 0, 0)
                 EXCEPT !.stmt.handle = NULL, !.conn.openChildCount = @ - 1] IN
    IF m1.crashed THEN m1
    ELSE IF m2.stmt.handle = NULL THEN Ok(ReleaseConn(m2))
    ELSE IF m3.rc < 0 THEN m3
    ELSE Ok(ReleaseConn(m4))

(***************************************************************************)
(* dpiStmt__createBindVar                                                  *)
(***************************************************************************)
dpiStmt__createBindVar(m, nativeOk, pos, name, nameLength) ==
    LET m1 == dpiVar__allocate(m, 1)
        tempVar == NewVar(m)
        m2 == Step(m1, "copyData", "DPI_ERR_COPY_DATA")
        m3 == dpiStmt__bind(m2, tempVar, FALSE, pos, name, nameLength) IN
    IF ~nativeOk THEN dpiError__set(m, "DPI_ERR_UNHANDLED_CONVERSION")
    ELSE IF m1.rc < 0 THEN m1
    ELSE IF m2.rc < 0 THEN m2
    ELSE IF m3.rc < 0 THEN [dpiVar__free(m3, tempVar) EXCEPT !.rc = DPI_FAILURE]
    ELSE m3

(***************************************************************************)
(* dpiStmt__createQueryVars                                                *)
(***************************************************************************)
\* lines 424-430: describe column i and the ones after it
RECURSIVE DescribeColumns(_, _)
DescribeColumns(m, i) ==
    IF i > m.stmt.numQueryVars THEN Ok(m)
    ELSE LET m1 == Oci(m, "paramGet", m.stmt.handle, i) IN
         IF m1.rc < 0 THEN [dpiStmt__clearQueryVars(m1) EXCEPT !.rc = DPI_FAILURE]
         ELSE DescribeColumns(m1, i + 1)

\* lines 411-431: allocate and describe n columns
AllocateQueryVars(m, n) ==
    LET m1 == Step(m, "callocQueryVars", "DPI_ERR_NO_MEMORY")
        m2 == [m1 EXCEPT !.stmt.queryVarsPtr = TRUE,
                         !.stmt.queryVars = [i \in 1..n |-> NULL]]
        m3 == Step(m2, "callocQueryInfo", "DPI_ERR_NO_MEMORY") IN
    IF m1.rc < 0
    THEN [m1 EXCEPT !.stmt.queryVarsPtr = FALSE, !.stmt.queryVars = <<>>]
    ELSE IF m3.rc < 0
    THEN [dpiStmt__clearQueryVars(m3) EXCEPT !.rc = DPI_FAILURE]
    ELSE DescribeColumns([m3 EXCEPT !.stmt.queryInfo = TRUE,
                                    !.stmt.numQueryVars = n], 1)

\* lines 433-435: indicate start of fetch
StartOfFetch(m) ==
    [m EXCEPT !.stmt.bufferRowIndex = m.stmt.fetchArraySize,
              !.stmt.hasRowsToFetch = TRUE]

\* the logged read of the column count carries the count the server reports
dpiStmt__createQueryVars(m) ==
    LET m1 == Oci(m, "attrGetParamCount", m.stmt.handle, m.o.numCols)
        n == m.o.numCols
        m2 == IF m1.stmt.numQueryVars > 0 /\ m1.stmt.numQueryVars # n
              THEN dpiStmt__clearQueryVars(m1) ELSE m1
        m3 == IF n # m2.stmt.numQueryVars THEN AllocateQueryVars(m2, n) ELSE Ok(m2) IN
    IF m1.rc < 0 THEN m1
    ELSE IF m3.rc < 0 THEN m3
    ELSE Ok(StartOfFetch(m3))

(***************************************************************************)
(* dpiStmt__init, dpiStmt__prepare                                         *)
(***************************************************************************)
\* the statement type and the returning flag are those of the SQL text
dpiStmt__init(m) ==
    LET m1 == Oci(m, "attrGetStmtType", m.stmt.handle, 0)
        m2 == IF m1.stmt.statementType = "SELECT"
              THEN [m1 EXCEPT !.stmt.hasRowsToFetch = TRUE]
              ELSE Oci(m1, "attrGetIsReturning", m1.stmt.handle, 0) IN
    IF m1.rc < 0 THEN m1 ELSE m2

dpiStmt__prepare(m) ==
    LET m1 == dpiOci__stmtPrepare2(m) IN
    IF m1.rc < 0 THEN m1 ELSE dpiStmt__init(m1)

(***************************************************************************)
(* dpiStmt__execute and dpiStmt__reExecute                                 *)
(***************************************************************************)
BoundToSelf_never(m, v) == FALSE

\* lines 511-512: the resource is of the cursor type and its value is the
\* statement itself
BoundToSelf(m, v) == m.vars[v].isSelfStmt

\* lines 507-520: copy every bound value to its wire form
RECURSIVE FlushBinds(_, _)
FlushBinds(m, i) ==
    IF i > Len(m.stmt.bindVars) THEN Ok(m)
    ELSE LET v == m.stmt.bindVars[i].var IN
         IF v = NULL THEN Crash(m)
         ELSE IF m.vars[v].st # "live" /\ m.o.uaf = "crash" THEN Crash(m)
         ELSE IF BoundToSelf(m, v) THEN dpiError__set(m, "DPI_ERR_NOT_SUPPORTED")
         ELSE LET m1 == Step(m, "setValue", "DPI_ERR_SET_VALUE") IN
              IF m1.rc < 0 THEN m1 ELSE FlushBinds(m1, i + 1)

\* lines 558-566: copy every bound value back from its wire form
RECURSIVE FlushOutputs(_, _)
FlushOutputs(m, i) ==
    IF i > Len(m.stmt.bindVars) THEN Ok(m)
    ELSE LET v == m.stmt.bindVars[i].var IN
         IF v = NULL THEN Crash(m)
         ELSE IF m.vars[v].st # "live" /\ m.o.uaf = "crash" THEN Crash(m)
         ELSE LET m1 == Step(m, "getValue", "DPI_ERR_GET_VALUE") IN
              IF m1.rc < 0 THEN m1 ELSE FlushOutputs(m1, i + 1)

\* the failed iterations in increasing order
RECURSIVE SortedSeq(_)
SortedSeq(S) ==
    IF S = {} THEN <<>>
    ELSE LET x == CHOOSE y \in S : \A z \in S : y <= z IN
         <<x>> \o SortedSeq(S \ {x})

\* dpiOci__stmtExecute: the server runs the statement.  In batch-error mode
\* the rejected iterations are kept on the server as DML errors and the call
\* succeeds; otherwise the first rejected iteration fails the call.
dpiOci__stmtExecute(m, numIters, mode) ==
    LET given == IF m.execOut = <<>> THEN 0 ELSE Head(m.execOut)
        failed == m.o.failed \cap 0..(numIters - 1)
        code == IF given # 0 THEN given
                ELSE IF failed # {} /\ ~mode.batchErrors THEN ORA_00001
                ELSE 0
        m1 == [Call(m, "stmtExecute", m.stmt.handle, code)
                  EXCEPT !.execOut = IF @ = <<>> THEN @ ELSE Tail(@)] IN
    IF code # 0 THEN OraError(m1, code, "stmtExecute")
    ELSE [Ok(m1) EXCEPT !.dmlErrors =
                            IF mode.batchErrors THEN SortedSeq(failed) ELSE <<>>,
                        !.oci.rows = m.o.rows, !.oci.pos = 0, !.oci.fetched = 0]

RecoveryPermitted_always(reExecute, code) == code = ORA_01007

\* line 545
RecoveryPermitted(reExecute, code) == reExecute /\ code = ORA_01007

MarkForEviction_clear(m) == [m EXCEPT !.stmt.deleteFromCache = FALSE]

\* lines 548 and 979
MarkForEviction(m) == [m EXCEPT !.stmt.deleteFromCache = TRUE]

EvictOnFailure_dropHandle(m) ==
    IF m.err.code # ORA_00001
    THEN [m EXCEPT !.stmt.deleteFromCache = TRUE, !.stmt.handle = NULL]
    ELSE m

\* lines 547-548
EvictOnFailure(m) ==
    IF m.err.code # ORA_00001 THEN MarkForEviction(m) ELSE m

IsOutputPossible(m) == m.stmt.isReturning \/ IsPlsql(m.stmt.statementType)

\* lines 572-580: describe the query and reset the prefetch rows
DescribeAfterExecute(m) ==
    LET m1 == dpiStmt__createQueryVars(m) IN
    IF m1.rc < 0 THEN m1 ELSE Oci(m1, "attrSetPrefetchReset", m1.stmt.handle, 0)

RECURSIVE dpiStmt__execute(_, _, _, _)

RebindEntry_addReference(m1, e) ==
    dpiStmt__bind(m1, e.var, TRUE, e.pos, e.name, e.nameLength)

\* lines 993-994: bind the resource again without taking a reference
RebindEntry(m1, e) ==
    dpiStmt__bind(m1, e.var, FALSE, e.pos, e.name, e.nameLength)

\* lines 986-998: bind entry i and the ones after it to the new handle
RECURSIVE Rebind(_, _)
Rebind(m, i) ==
    IF i > Len(m.stmt.bindVars) THEN Ok(m)
    ELSE LET e == m.stmt.bindVars[i]
             m1 == [m EXCEPT !.stmt.bindVars[i].var = NULL]
             m2 == RebindEntry(m1, e) IN
         IF e.var = NULL THEN Rebind(m, i + 1)
         ELSE IF m2.rc < 0
         THEN [dpiGen__setRefCount(m2, e.var, -1) EXCEPT !.rc = DPI_FAILURE]
         ELSE Rebind(m2, i + 1)

dpiStmt__reExecute(m, numIters, mode) ==
    LET m1 == Oci(m, "attrGetStatement", m.stmt.handle, 0)
        origHandle == m.stmt.handle
        m2 == dpiStmt__prepare(m1)
        status == m2.rc
        newHandle == m2.stmt.handle
        m3 == MarkForEviction([m2 EXCEPT !.stmt.handle = origHandle])
        m4 == dpiOci__stmtRelease(m3, TRUE)
        m5 == dpiStmt__clearQueryVars(
                  dpiStmt__clearBatchErrors([m4 EXCEPT !.stmt.handle = newHandle]))
        m6 == Rebind(m5, 1) IN
    IF m1.rc < 0 THEN m1
    ELSE IF m4.rc < 0 \/ status < 0 THEN [m4 EXCEPT !.rc = DPI_FAILURE]
    ELSE IF m6.rc < 0 THEN m6
    ELSE dpiStmt__execute(m6, numIters, mode, FALSE)

\* lines 568-581, m6 being the statement after the output flush
ExecutedOut(m6) ==
    IF m6.rc < 0 THEN m6
    ELSE IF m6.stmt.statementType = "SELECT" THEN DescribeAfterExecute(m6)
    ELSE Ok(m6)

ExecuteFailed_evictAll(m5, numIters, mode, reExecute) ==
    IF RecoveryPermitted(reExecute, m5.err.code)
    THEN dpiStmt__reExecute(m5, numIters, mode)
    ELSE [m5 EXCEPT !.stmt.deleteFromCache = TRUE]

\* lines 542-549, m5 being the statement after the failed protocol execute
\* and the read of the parse error offset
ExecuteFailed(m5, numIters, mode, reExecute) ==
    IF RecoveryPermitted(reExecute, m5.err.code)
    THEN dpiStmt__reExecute(m5, numIters, mode)
    ELSE EvictOnFailure(m5)

\* lines 541-581, m4 being the statement after the protocol execute
ExecuteResult(m4, numIters, mode, reExecute) ==
    IF m4.rc < 0
    THEN ExecuteFailed(Call(m4, "attrGetParseOffset", m4.stmt.handle, 0),
                       numIters, mode, reExecute)
    ELSE ExecutedOut(IF IsOutputPossible(m4) THEN FlushOutputs(m4, 1) ELSE m4)

\* lines 536-581, m2 being the statement after the prefetch hint
ExecutePrefetched(m2, numIters, mode, reExecute) ==
    IF m2.rc < 0 THEN m2
    ELSE ExecuteResult(dpiOci__stmtExecute(dpiStmt__clearBatchErrors(m2),
                                           numIters, mode),
                       numIters, mode, reExecute)

\* lines 523-581, m1 being the statement after the bind flush
ExecuteFlushed(m1, numIters, mode, reExecute) ==
    IF m1.rc < 0 THEN m1
    ELSE ExecutePrefetched(IF m1.stmt.statementType = "SELECT"
                           THEN Oci(m1, "attrSetPrefetch", m1.stmt.handle, 0)
                           ELSE m1,
                           numIters, mode, reExecute)

dpiStmt__execute(m, numIters, mode, reExecute) ==
    ExecuteFlushed(FlushBinds(m, 1), numIters, mode, reExecute)

(***************************************************************************)
(* dpiStmt__getBatchErrors                                                 *)
(***************************************************************************)
RowOffset_index(m, i) == i - 1

\* lines 687, 705: the row offset of the i-th error, as the server gives it
RowOffset(m, i) == m.dmlErrors[i]

\* lines 696-699: the message of error i is rendered with slot i as the error
\* buffer (localError.buffer = &stmt->batchErrors[i]); a failure to render is
\* recorded in that buffer too
RenderMessage(m, i) ==
    [Visit(m, "renderMessage") EXCEPT !.stmt.batchErrors[i] =
        [offset |-> 0, filled |-> TRUE,
         errorNum |-> IF Fails(m, "renderMessage") THEN "DPI_ERR_GET_FAILED" ELSE ""]]

\* line 700: the test reads the error buffer of the call, not the slot
RenderFailed(m, i) == m.err # NoError

\* lines 675-707: collect error i and the ones after it
RECURSIVE CollectErrors(_, _)
CollectErrors(m, i) ==
    IF i > m.stmt.numBatchErrors THEN Ok(m)
    ELSE LET m1 == Oci(m, "paramGetBatchError", m.stmt.handle, i)
             m2 == Oci(m1, "attrGetRowOffset", m.stmt.handle, i)
             m3 == RenderMessage(m2, i)
             m4 == [m3 EXCEPT !.stmt.batchErrors[i].offset = RowOffset(m, i)] IN
         IF m1.rc < 0 THEN dpiError__set(m1, "DPI_ERR_INVALID_INDEX")
         ELSE IF m2.rc < 0 THEN dpiError__set(m2, "DPI_ERR_CANNOT_GET_ROW_OFFSET")
         ELSE IF RenderFailed(m3, i) THEN [m3 EXCEPT !.rc = DPI_FAILURE]
         ELSE CollectErrors(m4, i + 1)

\* lines 712-713
DiscardOnFailure(m) ==
    IF m.rc < 0 THEN [dpiStmt__clearBatchErrors(m) EXCEPT !.rc = DPI_FAILURE] ELSE m

dpiStmt__getBatchErrors(m) ==
    LET m1 == Oci(m, "attrGetNumDmlErrors", m.stmt.handle, 0)
        n == Len(m.dmlErrors)
        m2 == Step([m1 EXCEPT !.stmt.numBatchErrors = n],
                   "callocBatchErrors", "DPI_ERR_NO_MEMORY")
        m3 == [m2 EXCEPT !.stmt.batchErrors =
                  [i \in 1..n |-> [offset |-> 0, filled |-> FALSE, errorNum |-> ""]]]
        m4 == Oci(m3, "handleAllocLocal", 0, 0)
        m5 == Oci(m4, "handleAllocBatch", 0, 0)
        m6 == CollectErrors(m5, 1) IN
    IF m1.rc < 0 THEN m1
    ELSE IF m2.rc < 0 THEN [m2 EXCEPT !.stmt.numBatchErrors = 0]
    ELSE IF m4.rc < 0 THEN [dpiStmt__clearBatchErrors(m4) EXCEPT !.rc = DPI_FAILURE]
    ELSE IF m5.rc < 0 THEN [dpiStmt__clearBatchErrors(m5) EXCEPT !.rc = DPI_FAILURE]
    ELSE DiscardOnFailure(m6)

(***************************************************************************)
(* The fetch window: dpiStmt__define, dpiStmt__preFetch, dpiStmt__fetch,   *)
(* dpiStmt__postFetch.                                                     *)
(***************************************************************************)
\* the row of the result set a positioned fetch starts at; oci.pos is the
\* server's current position, the last row it delivered
FetchTarget(m, mode, offset) ==
    CASE mode = "next" -> m.oci.pos + 1
      [] mode = "prior" -> m.oci.pos - 1
      [] mode = "first" -> 1
      [] mode = "last" -> m.oci.rows
      [] mode = "absolute" -> offset
      [] mode = "relative" -> m.oci.pos + offset

\* dpiOci__stmtFetch2: the server delivers numRows rows of the result set
\* from the target row on, or the rows that are left, none when the target
\* is no row of the result set; a short delivery is the end of the data
dpiOci__stmtFetch2(m, numRows, mode, offset) ==
    LET m1 == Oci(m, "stmtFetch2", m.stmt.handle, numRows)
        target == FetchTarget(m, mode, offset)
        left == IF target \in 1..m.oci.rows THEN m.oci.rows - target + 1 ELSE 0
        k == IF numRows < left THEN numRows ELSE left IN
    IF m1.rc < 0 THEN m1
    ELSE [m1 EXCEPT !.oci.pos = IF k > 0 THEN target + k - 1 ELSE @,
                    !.oci.fetched = k, !.oci.fetchedSinceExec = TRUE,
                    !.stmt.hasRowsToFetch = IF k < numRows THEN FALSE ELSE @]

\* The charset form and the object type of a column are set on the define
\* handle for the types that have them (lines 465-476): a step that may fail.
Unchanged_never(m, pos, var) == FALSE

\* line 449: the column already holds the resource
Unchanged(m, pos, var) == m.stmt.queryVars[pos] = var

dpiStmt__define(m, pos, var) ==
    LET prev == m.stmt.queryVars[pos]
        m1 == Oci(m, "defineByPos", m.stmt.handle, var)
        m2 == Step(m1, "defineAttrs", "DPI_ERR_DEFINE")
        m3 == IF m2.vars[var].isDynamic
              THEN Oci(m2, "defineDynamic", m2.stmt.handle, var) ELSE m2
        m4 == IF prev # NULL
              THEN [dpiGen__setRefCount(m3, prev, -1) EXCEPT !.stmt.queryVars[pos] = NULL]
              ELSE m3
        m5 == [dpiGen__setRefCount(m4, var, 1) EXCEPT !.stmt.queryVars[pos] = var] IN
    IF Unchanged(m, pos, var) THEN Ok(m)
    ELSE IF m1.rc < 0 THEN m1
    ELSE IF m2.rc < 0 THEN m2
    ELSE IF m3.rc < 0 THEN m3
    ELSE Ok(m5)

CapacityTooSmall_never(m, var) == FALSE

\* line 918: the resource holds fewer rows than one protocol fetch brings
CapacityTooSmall(m, var) == m.stmt.fetchArraySize > m.vars[var].maxArraySize

\* lines 905-923: column i and the ones after it
RECURSIVE PreFetchColumns(_, _)
PreFetchColumns(m, i) ==
    IF i > m.stmt.numQueryVars THEN Ok(m)
    ELSE LET have == m.stmt.queryVars[i]
             m1 == dpiVar__allocate(m, m.stmt.fetchArraySize)
             new == NewVar(m)
             m2 == dpiStmt__define(m1, i, new)
             m3 == dpiGen__setRefCount(m2, new, -1)
             m4 == IF have = NULL THEN m3 ELSE m
             var == IF have = NULL THEN new ELSE have
             m5 == Step(m4, "extendedPreFetch", "DPI_ERR_PRE_FETCH") IN
         IF have = NULL /\ m1.rc < 0 THEN m1
         ELSE IF have = NULL /\ m2.rc < 0 THEN m2
         ELSE IF CapacityTooSmall(m4, var)
         THEN dpiError__set(m4, "DPI_ERR_ARRAY_SIZE_TOO_SMALL")
         ELSE IF m5.rc < 0 THEN m5
         ELSE PreFetchColumns(m5, i + 1)

\* lines 905-925, m1 being the statement after the describe of line 902
PreFetchDescribed(m1) == IF m1.rc < 0 THEN m1 ELSE PreFetchColumns(m1, 1)

dpiStmt__preFetch(m) ==
    PreFetchDescribed(IF ~m.stmt.queryInfo THEN dpiStmt__createQueryVars(m)
                      ELSE Ok(m))

\* lines 873-881: row j of column i and the values after it
RECURSIVE PostFetchValues(_, _, _)
PostFetchValues(m, i, j) ==
    IF i > m.stmt.numQueryVars THEN Ok(m)
    ELSE IF j >= m.stmt.bufferRowCount THEN PostFetchValues(m, i + 1, 0)
    ELSE LET m1 == Step(m, "getValue", "DPI_ERR_GET_VALUE") IN
         IF m1.rc < 0 THEN m1 ELSE PostFetchValues(m1, i, j + 1)

dpiStmt__postFetch(m) == PostFetchValues(m, 1, 0)

\* lines 596-615, m1 being the statement after the pre-fetch of line 593
FetchPrepared(m1) ==
    LET m2 == dpiOci__stmtFetch2(m1, m1.stmt.fetchArraySize, "next", 0)
        m3 == Oci(m2, "attrGetRowsFetched", m2.stmt.handle, 0)
        m4 == [m3 EXCEPT !.stmt.bufferRowCount = m3.oci.fetched,
                         !.stmt.bufferMinRow = m3.stmt.rowCount + 1,
                         !.stmt.bufferRowIndex = 0] IN
    IF m1.rc < 0 THEN m1
    ELSE IF m2.rc < 0 THEN m2
    ELSE IF m3.rc < 0 THEN m3
    ELSE dpiStmt__postFetch(m4)

dpiStmt__fetch(m) == FetchPrepared(dpiStmt__preFetch(m))

(***************************************************************************)
(* The outcomes an action draws.                                           *)
(***************************************************************************)
\* sites a single call may visit more than once
MultiSites ==
    {"setValue", "getValue", "paramGet", "convertToLob", "bindByPos", "bindByName",
     "bindAttr", "attrSetPrefetch", "paramGetBatchError", "attrGetRowOffset",
     "renderMessage", "defineByPos", "varAllocate"}

Faults(sites) ==
    {NoFault} \cup
    {f \in [site : sites, n : 1..MaxFaultVisit] : f.n = 1 \/ f.site \in MultiSites}

\* The call sites of each group of functions, written out: every one is a
\* plain set of site names.
NoSites == {}
BindSites == {"callocBindVars", "mallocName", "convertToLob", "bindByPos",
              "bindByName", "bindAttr"}
BindValueSites == {"callocBindVars", "mallocName", "convertToLob", "bindByPos",
                   "bindByName", "bindAttr", "varAllocate", "copyData"}
RecoverySites == {"attrGetStatement", "stmtPrepare2", "attrGetStmtType",
                  "attrGetIsReturning", "stmtRelease", "convertToLob", "bindByPos",
                  "bindByName", "bindAttr"}
ExecFaultSites == {"setValue", "attrSetPrefetch", "getValue", "attrSetPrefetchReset",
                   "attrGetParamCount", "callocQueryVars", "callocQueryInfo",
                   "paramGet", "attrGetStatement", "stmtPrepare2", "attrGetStmtType",
                   "attrGetIsReturning", "stmtRelease", "convertToLob", "bindByPos",
                   "bindByName", "bindAttr"}
BatchErrorSites == {"attrGetNumDmlErrors", "callocBatchErrors", "handleAllocLocal",
                    "handleAllocBatch", "paramGetBatchError", "attrGetRowOffset",
                    "renderMessage"}
FetchSites == {"attrGetParamCount", "callocQueryVars", "paramGet", "varAllocate",
               "defineByPos", "defineAttrs", "extendedPreFetch", "stmtFetch2",
               "attrGetRowsFetched", "getValue"}
ManySites == {"setValue", "attrGetNumDmlErrors", "callocBatchErrors",
              "handleAllocLocal", "handleAllocBatch", "paramGetBatchError",
              "attrGetRowOffset", "renderMessage"}

ErrorCodes == {ORA_00001, ORA_01007, ORA_OTHER}
\* the results of the protocol execute calls of one execute: the second one
\* is that of the retry after a stale-metadata error
ExecResults ==
    {<<0>>, <<ORA_00001>>, <<ORA_OTHER>>,
     <<ORA_01007, 0>>, <<ORA_01007, ORA_00001>>, <<ORA_01007, ORA_01007>>,
     <<ORA_01007, ORA_OTHER>>}

\* the results a query is executed with in the fetch specification: success,
\* a failure, and a recovery that succeeds
QueryResults == {<<0>>, <<ORA_OTHER>>, <<ORA_01007, 0>>}

\* a read of freed memory has more than one outcome only when a bind entry
\* points to a freed resource
Dangling ==
    \E i \in 1..Len(stmt.bindVars) :
        stmt.bindVars[i].var # NULL /\ vars[stmt.bindVars[i].var].st = "freed"
UafOutcomes == IF Dangling THEN {"crash", "stale"} ELSE {"stale"}

Outcome(f, ex, failed, uaf, numCols, rows) ==
    [fault |-> f, ex |-> ex, failed |-> failed, uaf |-> uaf, numCols |-> numCols,
     rows |-> rows]
Plain(f) == Outcome(f, <<>>, {}, "stale", 1, 0)

NoArgs == [pos |-> 0, name |-> NoName, nameLength |-> 0, var |-> NULL,
           numIters |-> 0, batchErrors |-> FALSE, failed |-> {}, n |-> 0,
           mode |-> "", offset |-> 0, rowCountOffset |-> 0, isNull |-> FALSE]

\* the injected fault, if the call came to it
Fired(m) ==
    IF m.o.fault # NoFault /\ m.visits >= m.o.fault.n THEN m.o.fault ELSE NoFault

\* the public function returns: the machine becomes the state
Done(m, op, a, out) ==
    /\ stmt' = m.stmt
    /\ vars' = m.vars
    /\ conn' = m.conn
    /\ oci' = m.oci
    /\ last' = [op |-> op, rc |-> m.rc, err |-> IF m.rc < 0 THEN m.err ELSE NoError,
                trace |-> m.trace, crashed |-> m.crashed, fired |-> Fired(m),
                args |-> a, out |-> out]

\* no call is in progress and the statement's memory has not been freed
Alive == last.op = "none" /\ ~stmt.freed

LiveVars == {v \in Vars : vars[v].st = "live"}

(***************************************************************************)
(* Public functions: binds.                                                *)
(***************************************************************************)
dpiStmt_bindByPos(m, pos, var) ==
    LET m1 == dpiStmt__checkOpen(m) IN
    IF m1.rc < 0 THEN m1 ELSE dpiStmt__bind(m1, var, TRUE, pos, NoName, 0)

dpiStmt_bindByName(m, name, nameLength, var) ==
    LET m1 == dpiStmt__checkOpen(m) IN
    IF m1.rc < 0 THEN m1 ELSE dpiStmt__bind(m1, var, TRUE, 0, name, nameLength)

dpiStmt_bindValueByPos(m, nativeOk, pos) ==
    LET m1 == dpiStmt__checkOpen(m)
        m2 == dpiStmt__createBindVar(m1, nativeOk, pos, NoName, 0) IN
    IF m1.rc < 0 THEN m1
    ELSE IF m2.rc < 0 THEN m2
    ELSE dpiStmt_bindByPos(m2, pos, NewVar(m1))

dpiStmt_bindValueByName(m, nativeOk, name, nameLength) ==
    LET m1 == dpiStmt__checkOpen(m)
        m2 == dpiStmt__createBindVar(m1, nativeOk, 0, name, nameLength) IN
    IF m1.rc < 0 THEN m1
    ELSE IF m2.rc < 0 THEN m2
    ELSE dpiStmt_bindByName(m2, name, nameLength, NewVar(m1))

BindByPos(sites) ==
    /\ Alive
    /\ \E pos \in 0..MaxPos, var \in LiveVars, f \in Faults(sites) :
      \E m \in {dpiStmt_bindByPos(Machine(Plain(f)), pos, var)} :
        /\ Done(m, "bindByPos", [NoArgs EXCEPT !.pos = pos, !.var = var], NoOut)

\* a name of length 0 is a valid pointer with nameLength = 0
BindByName(names, sites) ==
    /\ Alive
    /\ \E name \in names \cup {NoName}, var \in LiveVars, f \in Faults(sites) :
      \E m \in {dpiStmt_bindByName(Machine(Plain(f)), name, Len(name), var)} :
        /\ Done(m, "bindByName",
                [NoArgs EXCEPT !.name = name, !.nameLength = Len(name), !.var = var],
                NoOut)

BindValueByPos(sites) ==
    /\ Alive
    /\ \E pos \in 1..MaxPos, nativeOk \in BOOLEAN, f \in Faults(sites) :
        /\ FreeVarIds(Machine(Plain(f))) # {}
        /\ \E m \in {dpiStmt_bindValueByPos(Machine(Plain(f)), nativeOk, pos)} :
             Done(m, "bindValueByPos",
                  [NoArgs EXCEPT !.pos = pos, !.var = NewVar(Machine(Plain(f)))],
                  NoOut)

BindValueByName(names, sites) ==
    /\ Alive
    /\ \E name \in names \cup {NoName}, nativeOk \in BOOLEAN, f \in Faults(sites) :
        /\ FreeVarIds(Machine(Plain(f))) # {}
        /\ \E m \in {dpiStmt_bindValueByName(Machine(Plain(f)), nativeOk, name,
                                             Len(name))} :
             Done(m, "bindValueByName",
                  [NoArgs EXCEPT !.name = name, !.nameLength = Len(name),
                                 !.var = NewVar(Machine(Plain(f)))], NoOut)

(***************************************************************************)
(* Public functions: execute, executeMany, close, release.                 *)
(***************************************************************************)
Mode(batchErrors) == [batchErrors |-> batchErrors]

\* line 1180: the single execute permits recovery
TopLevelReExecute == TRUE

dpiStmt_execute(m, mode) ==
    LET m1 == dpiStmt__checkOpen(m)
        numIters == IF m1.stmt.statementType = "SELECT" THEN 0 ELSE 1 IN
    IF m1.rc < 0 THEN m1
    ELSE dpiStmt__execute(m1, numIters, mode, TopLevelReExecute)

\* lines 1210-1215: every bound resource must hold numIters elements
RECURSIVE CheckArraySizes(_, _, _)
CheckArraySizes(m, numIters, i) ==
    IF i > Len(m.stmt.bindVars) THEN Ok(m)
    ELSE LET v == m.stmt.bindVars[i].var IN
         IF v = NULL THEN Crash(m)
         ELSE IF m.vars[v].st # "live" /\ m.o.uaf = "crash" THEN Crash(m)
         ELSE IF m.vars[v].maxArraySize < numIters
         THEN dpiError__set(m, "DPI_ERR_ARRAY_SIZE_TOO_SMALL")
         ELSE CheckArraySizes(m, numIters, i + 1)

\* lines 1219-1228, m3 being the statement after the execute of line 1219
ManyExecuted(m3, mode) ==
    IF m3.rc < 0 THEN m3
    ELSE IF mode.batchErrors THEN dpiStmt__getBatchErrors(m3)
    ELSE Ok(m3)

\* lines 1216-1228, m2 being the statement after the checks of lines 1210-1215
ManyChecked(m2, mode, numIters) ==
    IF m2.rc < 0 THEN m2
    ELSE ManyExecuted(dpiStmt__execute(dpiStmt__clearBatchErrors(m2), numIters,
                                       mode, FALSE), mode)

dpiStmt_executeMany(m, mode, numIters) ==
    LET m1 == dpiStmt__checkOpen(m) IN
    IF m1.rc < 0 THEN m1
    ELSE IF m1.stmt.statementType = "SELECT"
    THEN dpiError__set(m1, "DPI_ERR_NOT_SUPPORTED")
    ELSE ManyChecked(CheckArraySizes(m1, numIters, 1), mode, numIters)

dpiStmt_close_unguarded(m) == dpiStmt__close(m, TRUE)

dpiStmt_close(m) ==
    LET m1 == dpiStmt__checkOpen(m) IN
    IF m1.rc < 0 THEN m1 ELSE dpiStmt__close(m1, TRUE)

\* lines 623-627, reached from dpiStmt_release when the last reference to the
\* statement goes
dpiStmt__free(m) ==
    LET m1 == dpiStmt__close(m, FALSE) IN
    IF m1.crashed THEN m1 ELSE [m1 EXCEPT !.stmt.freed = TRUE]

\* An injected fault is paired with the protocol results that let the call
\* reach it: a fault on the recovery path needs a stale-metadata error first.
ExecOutcomes(sites, results) ==
    {[f |-> NoFault, ex |-> ex] : ex \in results} \cup
    {[f |-> f, ex |-> <<ORA_01007, 0>>] : f \in Faults(sites) \ {NoFault}} \cup
    {[f |-> f, ex |-> <<0>>] : f \in Faults(sites \ RecoverySites) \ {NoFault}}

\* a query has been executed and nothing of its result set fetched yet
QueryExecuted(m) ==
    IF m.rc = DPI_SUCCESS /\ m.stmt.statementType = "SELECT"
    THEN [m EXCEPT !.oci.fetchedSinceExec = FALSE, !.oci.scan = 0,
                   !.oci.delivered = FALSE]
    ELSE m

\* oci.delivered: fetch or fetchRows has handed a row to the caller since
\* the query was executed
Delivering(m) ==
    IF m.rc = DPI_SUCCESS /\ (m.out.found \/ m.out.numRows > 0)
    THEN [m EXCEPT !.oci.delivered = TRUE] ELSE m

\* oci.scan counts the single-row fetch calls since the query was executed,
\* as long as the rows are read one at a time with one array size; NoScan
\* when they are not, or when the count has passed the rows the model fetches
NoScan == -1

ScanFetch(m) ==
    IF m.rc = DPI_SUCCESS /\ m.oci.scan # NoScan /\ m.oci.scan < MaxRowCount
    THEN [m EXCEPT !.oci.scan = @ + 1] ELSE [m EXCEPT !.oci.scan = NoScan]

ScanBroken(m) == [m EXCEPT !.oci.scan = NoScan]

ScanResized(m) == IF m.oci.scan = 0 THEN m ELSE ScanBroken(m)

Execute(sites, results, colChoices, rowChoices) ==
    /\ Alive
    /\ \E fe \in ExecOutcomes(sites, results), uaf \in UafOutcomes, numCols \in colChoices,
       rows \in rowChoices :
      \E m \in {QueryExecuted(dpiStmt_execute(
                    Machine(Outcome(fe.f, fe.ex, {}, uaf, numCols, rows)),
                    Mode(FALSE)))} :
        /\ Done(m, "execute",
                [NoArgs EXCEPT !.numIters = IF stmt.statementType = "SELECT"
                                            THEN 0 ELSE 1],
                NoOut)

\* In batch mode the iterations in `failed` are rejected and the call goes
\* on; otherwise the first of them fails the call (ORA-00001).
ManyOutcomes(sites, numIters) ==
    {[f |-> NoFault, ex |-> <<c>>, failed |-> {}, batch |-> b] :
        c \in ErrorCodes, b \in BOOLEAN} \cup
    {[f |-> f, ex |-> <<0>>, failed |-> F, batch |-> TRUE] :
        f \in Faults(sites), F \in SUBSET (0..(numIters - 1))} \cup
    {[f |-> f, ex |-> <<0>>, failed |-> F, batch |-> FALSE] :
        f \in Faults(sites \ BatchErrorSites), F \in SUBSET (0..(numIters - 1))}

ExecuteMany(sites) ==
    /\ Alive
    /\ \E numIters \in 1..MaxIters, uaf \in UafOutcomes :
      \E o \in ManyOutcomes(sites, numIters) :
        \E m \in {dpiStmt_executeMany(
                      Machine(Outcome(o.f, o.ex, o.failed, uaf, 1, 0)),
                      Mode(o.batch), numIters)} :
          /\ Done(m, "executeMany",
                  [NoArgs EXCEPT !.batchErrors = o.batch, !.failed = o.failed,
                                 !.numIters = numIters],
                  NoOut)

Close(sites) ==
    /\ Alive
    /\ \E f \in Faults(sites) :
      \E m \in {dpiStmt_close(Machine(Plain(f)))} :
        /\ Done(m, "close", NoArgs, NoOut)

Release ==
    /\ Alive
    /\ \E m \in {dpiStmt__free(Machine(Plain(NoFault)))} :
        /\ Done(m, "release", NoArgs, NoOut)

(***************************************************************************)
(* Public functions: fetch, fetchRows, setFetchArraySize.                  *)
(***************************************************************************)
WindowExhausted_always(m) == TRUE

\* lines 1244, 1247, 1276, 1279
WindowExhausted(m) == m.stmt.bufferRowIndex >= m.stmt.bufferRowCount

\* lines 1245, 1277
Refill(m) == IF m.stmt.hasRowsToFetch THEN dpiStmt__fetch(m) ELSE Ok(m)

\* lines 1244-1246 and 1276-1278: the window after the refill, if there is one
Window(m1) == IF WindowExhausted(m1) THEN Refill(m1) ELSE m1

\* lines 1246-1256, m1 being the statement at line 1244 and m2 the window
DeliverRow(m1, m2) ==
    IF m2.rc < 0 THEN m2
    ELSE IF WindowExhausted(m1) /\ WindowExhausted(m2)
    THEN Ok([m2 EXCEPT !.out.found = FALSE])
    ELSE Ok([m2 EXCEPT !.out.found = TRUE, !.out.index = m2.stmt.bufferRowIndex,
                       !.stmt.bufferRowIndex = @ + 1, !.stmt.rowCount = @ + 1])

dpiStmt_fetch(m) ==
    LET m1 == dpiStmt__checkOpen(m) IN
    IF m1.rc < 0 THEN m1 ELSE DeliverRow(m1, Window(m1))

numRowsFetched_all(avail, maxRows) == avail

\* lines 1287 and 1290-1291: the rows left in the window, cut at maxRows
numRowsFetched(avail, maxRows) == IF avail > maxRows THEN maxRows ELSE avail

\* lines 1278-1295, m1 being the statement at line 1276 and m2 the window
DeliverRows(m1, m2, maxRows) ==
    LET avail == m2.stmt.bufferRowCount - m2.stmt.bufferRowIndex
        n == numRowsFetched(avail, maxRows) IN
    IF m2.rc < 0 THEN m2
    ELSE IF WindowExhausted(m1) /\ WindowExhausted(m2)
    THEN Ok([m2 EXCEPT !.out.moreRows = FALSE, !.out.index = 0, !.out.numRows = 0])
    ELSE Ok([m2 EXCEPT !.out.index = m2.stmt.bufferRowIndex, !.out.numRows = n,
                       !.out.moreRows = IF avail > maxRows THEN TRUE
                                        ELSE m2.stmt.hasRowsToFetch,
                       !.stmt.bufferRowIndex = @ + n, !.stmt.rowCount = @ + n])

dpiStmt_fetchRows(m, maxRows) ==
    LET m1 == dpiStmt__checkOpen(m) IN
    IF m1.rc < 0 THEN m1 ELSE DeliverRows(m1, Window(m1), maxRows)

dpiStmt_setFetchArraySize(m, arraySize) ==
    LET m1 == dpiStmt__checkOpen(m)
        size == IF arraySize = 0 THEN DPI_DEFAULT_FETCH_ARRAY_SIZE ELSE arraySize
        tooBig == \E i \in 1..m1.stmt.numQueryVars :
                      /\ m1.stmt.queryVars[i] # NULL
                      /\ m1.vars[m1.stmt.queryVars[i]].maxArraySize < size IN
    IF m1.rc < 0 THEN m1
    ELSE IF tooBig THEN dpiError__set(m1, "DPI_ERR_ARRAY_SIZE_TOO_BIG")
    ELSE Ok([m1 EXCEPT !.stmt.fetchArraySize = size])

\* the statement stops fetching after MaxRowCount rows
Fetch(sites, colChoices) ==
    /\ Alive
    /\ stmt.rowCount < MaxRowCount
    /\ \E f \in Faults(sites), numCols \in colChoices :
      \E m \in {Delivering(ScanFetch(dpiStmt_fetch(
                    Machine(Outcome(f, <<>>, {}, "stale", numCols, 0)))))} :
        /\ Done(m, "fetch", NoArgs, m.out)

FetchRows(sites, colChoices, limits) ==
    /\ Alive
    /\ stmt.rowCount < MaxRowCount
    /\ \E f \in Faults(sites), numCols \in colChoices, maxRows \in limits :
      \E m \in {Delivering(ScanBroken(dpiStmt_fetchRows(
                    Machine(Outcome(f, <<>>, {}, "stale", numCols, 0)), maxRows)))} :
        /\ m.stmt.rowCount <= MaxRowCount
        /\ Done(m, "fetchRows", [NoArgs EXCEPT !.n = maxRows], m.out)

SetFetchArraySize(sizes) ==
    /\ Alive
    /\ \E arraySize \in sizes :
      \E m \in {ScanResized(dpiStmt_setFetchArraySize(Machine(Plain(NoFault)),
                                                        arraySize))} :
        /\ Done(m, "setFetchArraySize", [NoArgs EXCEPT !.n = arraySize], NoOut)

(***************************************************************************)
(* Public function: scroll.  desiredRow, rowCount and bufferMinRow are     *)
(* unsigned 64-bit numbers.  The model keeps such a number as the integer  *)
(* of least magnitude congruent to it modulo 2^64: a value below 0 stands  *)
(* for the wrapped value 2^64 + value.  Sums and differences of these      *)
(* integers are then those of the unsigned numbers, as long as they stay   *)
(* far below 2^63, and the comparisons are the unsigned ones below.        *)
(***************************************************************************)
\* a >= b for unsigned a and b: a wrapped number is above every other
UnsignedGeq(a, b) ==
    IF (a < 0) = (b < 0) THEN a >= b ELSE a < 0

UnsignedLess_signed(a, b) == a < b

\* a < b for unsigned a and b (lines 1682-1683)
UnsignedLess(a, b) == ~UnsignedGeq(a, b)

ScrollModes == {"next", "prior", "first", "last", "absolute", "relative"}

\* lines 1654-1680: mode last leaves desiredRow unassigned, and line 1682
\* does not read it in that mode
DesiredRow(m, mode, offset, rowCountOffset) ==
    CASE mode = "next" -> m.stmt.rowCount + rowCountOffset + 1
      [] mode = "prior" -> m.stmt.rowCount + rowCountOffset - 1
      [] mode = "first" -> 1
      [] mode = "absolute" -> offset
      [] mode = "relative" -> m.stmt.rowCount + rowCountOffset + offset
      [] OTHER -> 0

\* lines 1674-1676: in mode relative the offset handed to the server is
\* taken from the last row of the window
ScrollOffset(m, mode, offset, desiredRow) ==
    IF mode = "relative"
    THEN desiredRow - (m.stmt.bufferMinRow + m.stmt.bufferRowCount - 1)
    ELSE offset

InWindow_never(m, mode, desiredRow) == FALSE

\* lines 1682-1684
InWindow(m, mode, desiredRow) ==
    /\ mode # "last"
    /\ UnsignedGeq(desiredRow, m.stmt.bufferMinRow)
    /\ UnsignedLess(desiredRow, m.stmt.bufferMinRow + m.stmt.bufferRowCount)

\* lines 1685-1687
Reposition(m, desiredRow) ==
    Ok([m EXCEPT !.stmt.bufferRowIndex = desiredRow - m.stmt.bufferMinRow,
                 !.stmt.rowCount = desiredRow - 1])

ZeroRowsLegal_any(mode) == TRUE

\* line 1706
ZeroRowsLegal(mode) == mode \in {"first", "last"}

\* lines 1705-1714: the positioned fetch brought no row
ScrollEmpty(m, mode) ==
    IF ~ZeroRowsLegal(mode) THEN dpiError__set(m, "DPI_ERR_SCROLL_OUT_OF_RS")
    ELSE Ok([m EXCEPT !.stmt.hasRowsToFetch = FALSE, !.stmt.rowCount = 0,
                      !.stmt.bufferRowIndex = 0, !.stmt.bufferMinRow = 0])

\* lines 1717-1730: the window is placed by the server's current position
ScrollPositioned(m) ==
    LET m1 == Oci(m, "attrGetCurrentPosition", m.stmt.handle, 0)
        rowCount == m1.oci.pos - m1.stmt.bufferRowCount IN
    IF m1.rc < 0 THEN m1
    ELSE dpiStmt__postFetch([m1 EXCEPT !.stmt.rowCount = rowCount,
                                       !.stmt.bufferMinRow = rowCount + 1,
                                       !.stmt.bufferRowIndex = 0])

\* lines 1690-1730, m1 being the statement after the pre-fetch of line 1690
ScrollFetched(m1, mode, offset) ==
    LET numRows == IF mode = "last" THEN 1 ELSE m1.stmt.fetchArraySize
        m2 == dpiOci__stmtFetch2(m1, numRows, mode, offset)
        m3 == Oci(m2, "attrGetRowsFetched", m2.stmt.handle, 0)
        m4 == [m3 EXCEPT !.stmt.bufferRowCount = m3.oci.fetched] IN
    IF m1.rc < 0 THEN m1
    ELSE IF m2.rc < 0 THEN m2
    ELSE IF m3.rc < 0 THEN m3
    ELSE IF m4.stmt.bufferRowCount = 0 THEN ScrollEmpty(m4, mode)
    ELSE ScrollPositioned(m4)

\* lines 1654-1730, m1 being the statement after the check of line 1651
ScrollTo(m1, mode, offset, desiredRow) ==
    IF mode \notin ScrollModes THEN dpiError__set(m1, "DPI_ERR_NOT_SUPPORTED")
    ELSE IF InWindow(m1, mode, desiredRow) THEN Reposition(m1, desiredRow)
    ELSE ScrollFetched(dpiStmt__preFetch(m1), mode,
                       ScrollOffset(m1, mode, offset, desiredRow))

dpiStmt_scroll(m, mode, offset, rowCountOffset) ==
    LET m1 == dpiStmt__checkOpen(m) IN
    IF m1.rc < 0 THEN m1
    ELSE ScrollTo(m1, mode, offset, DesiredRow(m1, mode, offset, rowCountOffset))

Scroll(sites, colChoices, modes, offsets, rowCountOffsets) ==
    /\ Alive
    /\ \E f \in Faults(sites), numCols \in colChoices, mode \in modes,
          offset \in offsets, rowCountOffset \in rowCountOffsets :
      \E m \in {ScanBroken(dpiStmt_scroll(
                    Machine(Outcome(f, <<>>, {}, "stale", numCols, 0)),
                    mode, offset, rowCountOffset))} :
        /\ Done(m, "scroll", [NoArgs EXCEPT !.mode = mode, !.offset = offset,
                                            !.rowCountOffset = rowCountOffset], NoOut)

(***************************************************************************)
(* Public functions: define, defineValue.                                  *)
(***************************************************************************)
\* lines 1118, 1148, 1522: describe the query when it has not been described
Described(m) == IF ~m.stmt.queryInfo THEN dpiStmt__createQueryVars(m) ELSE Ok(m)

\* lines 1120, 1150, 1524, 1549
PositionInvalid(m, pos) == pos = 0 \/ pos > m.stmt.numQueryVars

\* lines 1120-1126, m2 being the statement after line 1118
DefineDescribed(m2, pos, var) ==
    IF m2.rc < 0 THEN m2
    ELSE IF PositionInvalid(m2, pos)
    THEN dpiError__set(m2, "DPI_ERR_QUERY_POSITION_INVALID")
    ELSE dpiStmt__define(m2, pos, var)

dpiStmt_define(m, pos, var) ==
    LET m1 == dpiStmt__checkOpen(m) IN
    IF m1.rc < 0 THEN m1 ELSE DefineDescribed(Described(m1), pos, var)

\* lines 1159-1162, m3 being the statement after the allocation of line 1155
\* and var the new resource: a failed define returns with the resource
\* still allocated
DefineAllocated(m3, pos, var) ==
    IF m3.rc < 0 THEN m3
    ELSE LET m4 == dpiStmt__define(m3, pos, var) IN
         IF m4.rc < 0 THEN m4 ELSE Ok(dpiGen__setRefCount(m4, var, -1))

\* lines 1150-1162, m2 being the statement after line 1148
DefineValueDescribed(m2, pos) ==
    IF m2.rc < 0 THEN m2
    ELSE IF PositionInvalid(m2, pos)
    THEN dpiError__set(m2, "DPI_ERR_QUERY_POSITION_INVALID")
    ELSE DefineAllocated(dpiVar__allocate(m2, m2.stmt.fetchArraySize), pos, NewVar(m2))

dpiStmt_defineValue(m, pos) ==
    LET m1 == dpiStmt__checkOpen(m) IN
    IF m1.rc < 0 THEN m1 ELSE DefineValueDescribed(Described(m1), pos)

Define(sites, colChoices) ==
    /\ Alive
    /\ \E f \in Faults(sites), numCols \in colChoices, pos \in 0..(MaxCols + 1),
          var \in LiveVars :
      \E m \in {ScanBroken(dpiStmt_define(
                    Machine(Outcome(f, <<>>, {}, "stale", numCols, 0)), pos, var))} :
        /\ Done(m, "define", [NoArgs EXCEPT !.pos = pos, !.var = var], NoOut)

DefineValue(sites, colChoices) ==
    /\ Alive
    /\ \E f \in Faults(sites), numCols \in colChoices, pos \in 0..(MaxCols + 1) :
      \E m \in {ScanBroken(dpiStmt_defineValue(
                    Machine(Outcome(f, <<>>, {}, "stale", numCols, 0)), pos))} :
        /\ Done(m, "defineValue", [NoArgs EXCEPT !.pos = pos], NoOut)

(***************************************************************************)
(* Public functions: the getters.  Each takes the statement and output     *)
(* pointers; isNull says that one of the pointers is NULL.                 *)
(***************************************************************************)
\* the client versions on the two sides of the tests of lines 1440 and 1606
ClientVersions == {11, 12}

\* DPI_CHECK_PTR_NOT_NULL: a NULL pointer argument is rejected
CheckPtr(m, isNull) ==
    IF isNull THEN dpiError__set(m, "DPI_ERR_NULL_POINTER_PARAMETER") ELSE Ok(m)

\* the guards every getter begins with: the statement is open (m1 being the
\* statement after dpiStmt__checkOpen) and the pointers are not NULL
Guarded(m1, isNull) == IF m1.rc < 0 THEN m1 ELSE CheckPtr(m1, isNull)

Value(m, v) == Ok([m EXCEPT !.out.value = v])

dpiStmt_getBatchErrorCount(m, isNull) ==
    LET m2 == Guarded(dpiStmt__checkOpen(m), isNull) IN
    IF m2.rc < 0 THEN m2 ELSE Value(m2, m2.stmt.numBatchErrors)

dpiStmt_getBatchErrors(m, numErrors, isNull) ==
    LET m2 == Guarded(dpiStmt__checkOpen(m), isNull) IN
    IF m2.rc < 0 THEN m2
    ELSE IF numErrors < m2.stmt.numBatchErrors
    THEN dpiError__set(m2, "DPI_ERR_ARRAY_SIZE_TOO_SMALL")
    ELSE Value(m2, m2.stmt.numBatchErrors)

dpiStmt_getBindCount(m, isNull) ==
    LET m2 == Guarded(dpiStmt__checkOpen(m), isNull) IN
    IF m2.rc < 0 THEN m2 ELSE Oci(m2, "attrGetBindCount", m2.stmt.handle, 0)

\* lines 1380-1408 for a statement whose numFound distinct bind names come
\* in one pass of the loop; numBindNames is the capacity of the caller's
\* arrays
dpiStmt_getBindNames(m, numBindNames, numFound, isNull) ==
    LET m2 == Guarded(dpiStmt__checkOpen(m), isNull)
        m3 == Oci(m2, "stmtGetBindInfo", m2.stmt.handle, 0) IN
    IF m2.rc < 0 THEN m2
    ELSE IF m3.rc < 0 THEN m3
    ELSE IF numFound > numBindNames
    THEN dpiError__set(m3, "DPI_ERR_ARRAY_SIZE_TOO_SMALL")
    ELSE Value(m3, numFound)

dpiStmt_getFetchArraySize(m, isNull) ==
    LET m2 == Guarded(dpiStmt__checkOpen(m), isNull) IN
    IF m2.rc < 0 THEN m2 ELSE Value(m2, m2.stmt.fetchArraySize)

\* lines 1437-1456 for a statement that has no further result: the handle
\* the server returns is NULL
dpiStmt_getImplicitResult(m, versionNum, isNull) ==
    LET m2 == Guarded(dpiStmt__checkOpen(m), isNull) IN
    IF m2.rc < 0 THEN m2
    ELSE IF versionNum < 12 THEN dpiError__set(m2, "DPI_ERR_NOT_SUPPORTED")
    ELSE Oci(m2, "stmtGetNextResult", m2.stmt.handle, 0)

dpiStmt_getInfo(m, isNull) == Guarded(dpiStmt__checkOpen(m), isNull)

dpiStmt_getNumQueryColumns(m, isNull) ==
    LET m2 == Guarded(dpiStmt__checkOpen(m), isNull)
        m3 == IF m2.stmt.statementType = "SELECT" /\ m2.stmt.numQueryVars = 0
              THEN dpiStmt__createQueryVars(m2) ELSE m2 IN
    IF m2.rc < 0 THEN m2
    ELSE IF m3.rc < 0 THEN m3
    ELSE Value(m3, m3.stmt.numQueryVars)

\* lines 1524-1529, m3 being the statement after line 1522
QueryInfoDescribed(m3, pos) ==
    IF m3.rc < 0 THEN m3
    ELSE IF PositionInvalid(m3, pos)
    THEN dpiError__set(m3, "DPI_ERR_QUERY_POSITION_INVALID")
    ELSE Value(m3, pos)

dpiStmt_getQueryInfo(m, pos, isNull) ==
    LET m2 == Guarded(dpiStmt__checkOpen(m), isNull) IN
    IF m2.rc < 0 THEN m2 ELSE QueryInfoDescribed(Described(m2), pos)

NoRowFetched_never(m, pos) == FALSE

\* lines 1552-1554
NoRowFetched(m, pos) ==
    \/ m.stmt.queryVars[pos] = NULL
    \/ m.stmt.bufferRowIndex = 0
    \/ m.stmt.bufferRowIndex > m.stmt.bufferRowCount

\* the value is the element bufferRowIndex - 1 of the column's buffer
dpiStmt_getQueryValue(m, pos, isNull) ==
    LET m2 == Guarded(dpiStmt__checkOpen(m), isNull) IN
    IF m2.rc < 0 THEN m2
    ELSE IF ~m2.stmt.queryVarsPtr THEN dpiError__set(m2, "DPI_ERR_QUERY_NOT_EXECUTED")
    ELSE IF PositionInvalid(m2, pos)
    THEN dpiError__set(m2, "DPI_ERR_QUERY_POSITION_INVALID")
    ELSE IF NoRowFetched(m2, pos) THEN dpiError__set(m2, "DPI_ERR_NO_ROW_FETCHED")
    ELSE Value(m2, m2.stmt.bufferRowIndex - 1)

\* both client versions read the count of a statement that is no query from
\* the server
dpiStmt_getRowCount(m, isNull) ==
    LET m2 == Guarded(dpiStmt__checkOpen(m), isNull) IN
    IF m2.rc < 0 THEN m2
    ELSE IF m2.stmt.statementType = "SELECT" THEN Value(m2, m2.stmt.rowCount)
    ELSE Oci(m2, "attrGetRowCount", m2.stmt.handle, 0)

dpiStmt_getRowCounts(m, versionNum, isNull) ==
    LET m2 == Guarded(dpiStmt__checkOpen(m), isNull) IN
    IF m2.rc < 0 THEN m2
    ELSE IF versionNum < 12 THEN dpiError__set(m2, "DPI_ERR_NOT_SUPPORTED")
    ELSE Oci(m2, "attrGetRowCounts", m2.stmt.handle, 0)

dpiStmt_getSubscrQueryId(m, isNull) ==
    LET m2 == Guarded(dpiStmt__checkOpen(m), isNull) IN
    IF m2.rc < 0 THEN m2 ELSE Oci(m2, "attrGetQueryId", m2.stmt.handle, 0)

\* the caller's inputs of a getter
Got(m, op, n, pos, isNull) ==
    Done(m, op, [NoArgs EXCEPT !.n = n, !.pos = pos, !.isNull = isNull], m.out)

GetBatchErrorCount ==
    /\ Alive
    /\ \E isNull \in BOOLEAN :
      \E m \in {dpiStmt_getBatchErrorCount(Machine(Plain(NoFault)), isNull)} :
        /\ Got(m, "getBatchErrorCount", 0, 0, isNull)

GetBatchErrors ==
    /\ Alive
    /\ \E isNull \in BOOLEAN, numErrors \in 0..MaxIters :
      \E m \in {dpiStmt_getBatchErrors(Machine(Plain(NoFault)), numErrors, isNull)} :
        /\ Got(m, "getBatchErrors", numErrors, 0, isNull)

GetBindCount ==
    /\ Alive
    /\ \E isNull \in BOOLEAN :
      \E m \in {dpiStmt_getBindCount(Machine(Plain(NoFault)), isNull)} :
        /\ Got(m, "getBindCount", 0, 0, isNull)

GetBindNames ==
    /\ Alive
    /\ \E isNull \in BOOLEAN, numBindNames \in 0..MaxNames, numFound \in 0..MaxNames :
      \E m \in {dpiStmt_getBindNames(Machine(Plain(NoFault)), numBindNames,
                                      numFound, isNull)} :
        /\ Got(m, "getBindNames", numBindNames, 0, isNull)

GetFetchArraySize ==
    /\ Alive
    /\ \E isNull \in BOOLEAN :
      \E m \in {dpiStmt_getFetchArraySize(Machine(Plain(NoFault)), isNull)} :
        /\ Got(m, "getFetchArraySize", 0, 0, isNull)

GetImplicitResult ==
    /\ Alive
    /\ \E isNull \in BOOLEAN, versionNum \in ClientVersions :
      \E m \in {dpiStmt_getImplicitResult(Machine(Plain(NoFault)), versionNum,
                                           isNull)} :
        /\ Got(m, "getImplicitResult", versionNum, 0, isNull)

GetInfo ==
    /\ Alive
    /\ \E isNull \in BOOLEAN :
      \E m \in {dpiStmt_getInfo(Machine(Plain(NoFault)), isNull)} :
        /\ Got(m, "getInfo", 0, 0, isNull)

GetNumQueryColumns(colChoices) ==
    /\ Alive
    /\ \E isNull \in BOOLEAN, numCols \in colChoices :
      \E m \in {ScanBroken(dpiStmt_getNumQueryColumns(
                    Machine(Outcome(NoFault, <<>>, {}, "stale", numCols, 0)), isNull))} :
        /\ Got(m, "getNumQueryColumns", 0, 0, isNull)

GetQueryInfo(colChoices) ==
    /\ Alive
    /\ \E isNull \in BOOLEAN, numCols \in colChoices, pos \in 0..(MaxCols + 1) :
      \E m \in {ScanBroken(dpiStmt_getQueryInfo(
                    Machine(Outcome(NoFault, <<>>, {}, "stale", numCols, 0)),
                    pos, isNull))} :
        /\ Got(m, "getQueryInfo", 0, pos, isNull)

GetQueryValue ==
    /\ Alive
    /\ \E isNull \in BOOLEAN, pos \in 0..(MaxCols + 1) :
      \E m \in {dpiStmt_getQueryValue(Machine(Plain(NoFault)), pos, isNull)} :
        /\ Got(m, "getQueryValue", 0, pos, isNull)

GetRowCount ==
    /\ Alive
    /\ \E isNull \in BOOLEAN :
      \E m \in {dpiStmt_getRowCount(Machine(Plain(NoFault)), isNull)} :
        /\ Got(m, "getRowCount", 0, 0, isNull)

GetRowCounts ==
    /\ Alive
    /\ \E isNull \in BOOLEAN, versionNum \in ClientVersions :
      \E m \in {dpiStmt_getRowCounts(Machine(Plain(NoFault)), versionNum, isNull)} :
        /\ Got(m, "getRowCounts", versionNum, 0, isNull)

GetSubscrQueryId ==
    /\ Alive
    /\ \E isNull \in BOOLEAN :
      \E m \in {dpiStmt_getSubscrQueryId(Machine(Plain(NoFault)), isNull)} :
        /\ Got(m, "getSubscrQueryId", 0, 0, isNull)

(***************************************************************************)
(* The connection, which is not the statement's to close: its owner closes *)
(* it, in one step or by first marking it as closing.                      *)
(***************************************************************************)
ConnectionCloses ==
    /\ Alive
    /\ conn.handle
    /\ \/ ~conn.closing /\ conn' = [conn EXCEPT !.closing = TRUE]
       \/ conn' = [conn EXCEPT !.handle = FALSE]
    /\ UNCHANGED <<stmt, vars, oci, last>>

(***************************************************************************)
(* The state after dpiStmt__allocate and dpiStmt__prepare: an open         *)
(* statement of a known type on a live connection, nothing bound.          *)
(***************************************************************************)
InitStmt(type, scrollable) ==
    [handle |-> 1, conn |-> TRUE, statementType |-> type, scrollable |-> scrollable,
     isReturning |-> FALSE, isOwned |-> FALSE,
     fetchArraySize |-> DPI_DEFAULT_FETCH_ARRAY_SIZE,
     rowCount |-> 0, bufferMinRow |-> 0, bufferRowCount |-> 0, bufferRowIndex |-> 0,
     hasRowsToFetch |-> (type = "SELECT"), deleteFromCache |-> FALSE,
     bindVars |-> <<>>, allocatedBindVars |-> 0,
     queryVars |-> <<>>, queryVarsPtr |-> FALSE, queryInfo |-> FALSE,
     numQueryVars |-> 0, batchErrors |-> <<>>, numBatchErrors |-> 0,
     freed |-> FALSE]

InitVars ==
    [v \in Vars |->
        IF v \in CallerVars
        THEN [st |-> "live", refCount |-> 1, maxArraySize |-> v,
              isDynamic |-> (v % 2 = 0), isSelfStmt |-> FALSE, doubleFree |-> FALSE,
              byStmt |-> FALSE]
        ELSE [st |-> "none", refCount |-> 0, maxArraySize |-> 0,
              isDynamic |-> FALSE, isSelfStmt |-> FALSE, doubleFree |-> FALSE,
              byStmt |-> FALSE]]

InitConn == [handle |-> TRUE, closing |-> FALSE, refCount |-> 2, openChildCount |-> 1]

InitOci ==
    [handles |-> [h \in Handles |->
                     [st |-> IF h = 1 THEN "live" ELSE "none", releases |-> 0]],
     nextHandle |-> 2, rows |-> 0, pos |-> 0, fetched |-> 0,
     fetchedSinceExec |-> TRUE, scan |-> NoScan, delivered |-> FALSE]

InitLast == [op |-> "none", rc |-> DPI_SUCCESS, err |-> NoError, trace |-> <<>>,
             crashed |-> FALSE, fired |-> NoFault, args |-> NoArgs, out |-> NoOut]

\* The caller takes the result of the call; the next call may begin.  After
\* a crash there is no caller left.
Return ==
    /\ last.op # "none"
    /\ ~last.crashed
    /\ last' = InitLast
    /\ UNCHANGED <<stmt, vars, conn, oci>>

\* the caller has set the value of resource 1, a cursor, to the statement
InitVarsSelf == [InitVars EXCEPT ![1].isSelfStmt = TRUE]

InitWith(types, scrollable) ==
    /\ \E type \in types : stmt = InitStmt(type, scrollable)
    /\ vars = InitVars
    /\ conn = InitConn
    /\ oci = InitOci
    /\ last = InitLast

OneCol == {1}
QueryCols == 1..MaxCols
NoRows == {0}
DmlTypes == {"INSERT", "BEGIN"}
QueryTypes == {"SELECT"}
ResultSizes == 0..MaxRows
RowLimits == 0..MaxIters
FetchArraySizes == 0..MaxIters
ScrollArraySizes == 1..MaxIters
ScrollRequests == ScrollModes \cup {"invalid"}
ScrollOffsets == -1..MaxRows
RowCountOffsets == {-1, 0}
PlainResults == {<<0>>}
OneRow == {1}
FlushSites == {"setValue"}
CloseSites == {"stmtRelease"}
LobSites == {"convertToLob"}
PreFetchSites == {"varAllocate", "defineByPos", "stmtFetch2"}
DescribeSites == {"attrGetParamCount", "callocQueryVars", "callocQueryInfo", "paramGet"}
GuardRequests == {"last"}
NoOffset == {0}
GuardArraySizes == {0}
ScrollSites == {"defineByPos", "stmtFetch2", "attrGetCurrentPosition"}

\* The bind registry: the four bind functions, execution with recovery and
\* close, on a DML or a PL/SQL statement.
Init == InitWith(DmlTypes, FALSE)

Next ==
    \/ BindByPos(BindSites)
    \/ BindByName(BindNames, BindSites)
    \/ BindValueByPos(BindValueSites)
    \/ BindValueByName(BindNames, BindValueSites)
    \/ Execute(RecoverySites, ExecResults, OneCol, NoRows)
    \/ Close(NoSites)
    \/ Return

Spec == Init /\ [][Next]_allVars

\* Single and array execution with recovery and batch errors.
InitExec == InitWith(StmtTypes, FALSE)

NextExec ==
    \/ BindByPos(NoSites)
    \/ Execute(ExecFaultSites, ExecResults, QueryCols, NoRows)
    \/ ExecuteMany(ManySites)
    \/ Return

SpecExec == InitExec /\ [][NextExec]_allVars

\* A query: execution and the fetch window.
InitFetch == InitWith(QueryTypes, FALSE)

NextFetch ==
    \/ Execute(NoSites, QueryResults, OneCol, ResultSizes)
    \/ Fetch(FetchSites, OneCol)
    \/ FetchRows(FetchSites, OneCol, RowLimits)
    \/ SetFetchArraySize(FetchArraySizes)
    \/ GetQueryValue
    \/ Return

SpecFetch == InitFetch /\ [][NextFetch]_allVars

\* A scrollable query: execution, single-row fetch and positioning.
InitScroll == InitWith(QueryTypes, TRUE)

NextScroll ==
    \/ Execute(NoSites, PlainResults, OneCol, ResultSizes)
    \/ Fetch(NoSites, OneCol)
    \/ SetFetchArraySize(ScrollArraySizes)
    \/ Scroll(ScrollSites, OneCol, ScrollRequests, ScrollOffsets, RowCountOffsets)
    \/ Return

SpecScroll == InitScroll /\ [][NextScroll]_allVars

\* Execution of a statement when one of the caller's resources is a cursor
\* that refers to the statement.
InitSelf ==
    /\ \E type \in DmlTypes : stmt = InitStmt(type, FALSE)
    /\ vars = InitVarsSelf
    /\ conn = InitConn
    /\ oci = InitOci
    /\ last = InitLast

NextSelf ==
    \/ BindByPos(NoSites)
    \/ BindByName(BindNames, NoSites)
    \/ Execute(FlushSites, ExecResults, OneCol, NoRows)
    \/ ExecuteMany(NoSites)
    \/ ConnectionCloses
    \/ Return

SpecSelf == InitSelf /\ [][NextSelf]_allVars

\* A query whose column count the server may report differently from one
\* describe to the next.
InitDescribe == InitWith(QueryTypes, FALSE)

NextDescribe ==
    \/ Execute(DescribeSites, PlainResults, QueryCols, NoRows)
    \/ Define(DescribeSites, QueryCols)
    \/ GetQueryInfo(QueryCols)
    \/ GetNumQueryColumns(QueryCols)
    \/ Fetch(DescribeSites, QueryCols)
    \/ Return

SpecDescribe == InitDescribe /\ [][NextDescribe]_allVars

\* A scrollable query whose columns the caller may define with resources of
\* its own, of capacity 1 and 2, under fetch array sizes 1 to 3.
InitPreFetch == InitWith(QueryTypes, TRUE)

NextPreFetch ==
    \/ Execute(NoSites, PlainResults, QueryCols, OneRow)
    \/ Define(NoSites, QueryCols)
    \/ SetFetchArraySize(ScrollArraySizes)
    \/ Fetch(PreFetchSites, QueryCols)
    \/ FetchRows(NoSites, QueryCols, OneRow)
    \/ Scroll(NoSites, QueryCols, GuardRequests, NoOffset, NoOffset)
    \/ Return

SpecPreFetch == InitPreFetch /\ [][NextPreFetch]_allVars

\* The end of a statement: binds and defines, then explicit closes and the
\* final release.
InitClose == InitWith(StmtTypes, FALSE)

NextClose ==
    \/ BindByPos(LobSites)
    \/ BindByName(BindNames, NoSites)
    \/ Define(NoSites, OneCol)
    \/ Fetch(NoSites, OneCol)
    \/ Close(CloseSites)
    \/ Release
    \/ Return

SpecClose == InitClose /\ [][NextClose]_allVars

\* Recovery and what follows it: binds, executions of a statement whose
\* metadata may be stale, and fetches.
InitRecover == InitWith(StmtTypes, FALSE)

NextRecover ==
    \/ BindByPos(NoSites)
    \/ Execute(RecoverySites, ExecResults, OneCol, OneRow)
    \/ Fetch(NoSites, OneCol)
    \/ Return

SpecRecover == InitRecover /\ [][NextRecover]_allVars

\* A query whose columns are defined again between fetches, and the values
\* read from the window.
InitValue == InitWith(QueryTypes, FALSE)

NextValue ==
    \/ Execute(NoSites, PlainResults, OneCol, ResultSizes)
    \/ Define(NoSites, OneCol)
    \/ DefineValue(NoSites, OneCol)
    \/ SetFetchArraySize(ScrollArraySizes)
    \/ Fetch(NoSites, OneCol)
    \/ GetQueryValue
    \/ Return

SpecValue == InitValue /\ [][NextValue]_allVars

\* Every public function, on a statement that may be closed and on a
\* connection that may be closing or closed.
InitGuard == InitWith(QueryTypes, FALSE)

NextGuard ==
    \/ BindByPos(NoSites)
    \/ BindByName(BindNames, NoSites)
    \/ BindValueByPos(NoSites)
    \/ BindValueByName(BindNames, NoSites)
    \/ Define(NoSites, OneCol)
    \/ DefineValue(NoSites, OneCol)
    \/ Execute(NoSites, PlainResults, OneCol, OneRow)
    \/ ExecuteMany(NoSites)
    \/ Fetch(NoSites, OneCol)
    \/ FetchRows(NoSites, OneCol, OneRow)
    \/ Scroll(NoSites, OneCol, GuardRequests, NoOffset, NoOffset)
    \/ SetFetchArraySize(GuardArraySizes)
    \/ GetBatchErrorCount
    \/ GetBatchErrors
    \/ GetBindCount
    \/ GetBindNames
    \/ GetFetchArraySize
    \/ GetImplicitResult
    \/ GetInfo
    \/ GetNumQueryColumns(OneCol)
    \/ GetQueryInfo(OneCol)
    \/ GetQueryValue
    \/ GetRowCount
    \/ GetRowCounts
    \/ GetSubscrQueryId
    \/ Close(NoSites)
    \/ ConnectionCloses
    \/ Return

SpecGuard == InitGuard /\ [][NextGuard]_allVars

(***************************************************************************)
(* Properties of execution.                                                *)
(***************************************************************************)
ExecOps == {"execute", "executeMany"}

EventsAt(t, P(_)) == {k \in 1..Len(t) : P(t[k])}

Events(c) == EventsAt(last.trace, LAMBDA e : e.call = c)

\* C1: one call of dpiStmt_execute prepares the statement again at most once
\* and runs the protocol execute at most twice, the second time only after
\* the one recovery; when the retried protocol execute fails, also with the
\* stale-metadata error, the call fails.
C1_RecoveryAtMostOnce ==
    last.op = "execute" =>
        /\ Cardinality(Events("attrGetStatement")) <= 1
        /\ Cardinality(Events("stmtPrepare2")) <= 1
        /\ Cardinality(Events("stmtExecute")) <= 2
        /\ Cardinality(Events("stmtExecute")) = 2
              => Cardinality(Events("stmtPrepare2")) = 1
        /\ \A k \in Events("stmtExecute") :
              (k > 1 /\ \E j \in Events("stmtExecute") : j < k)
                 /\ last.trace[k].v # 0
              => last.rc = DPI_FAILURE

C1_Witness ==
    /\ last.op = "execute" /\ last.rc = DPI_FAILURE
    /\ Cardinality(Events("stmtExecute")) = 2
    /\ \A k \in Events("stmtExecute") : last.trace[k].v = ORA_01007
    /\ Cardinality(Events("stmtPrepare2")) = 1
    /\ Events("bindByPos") # {}

\* what C3 says a failed execution leaves alone
Frame(s) ==
    <<s.bindVars, s.queryVars, s.queryVarsPtr, s.queryInfo, s.numQueryVars,
      s.bufferMinRow, s.bufferRowCount, s.bufferRowIndex, s.rowCount,
      s.hasRowsToFetch, s.fetchArraySize, s.handle>>

\* C3 as stated: a failed execute or executeMany leaves the bind registry,
\* the query metadata, the fetch window, the row count, the has-more-rows
\* flag, the fetch array size and the protocol handle as they were.
C3_FailureFrame ==
    [][(last'.op \in ExecOps /\ last'.rc = DPI_FAILURE /\ ~last'.crashed)
          => Frame(stmt') = Frame(stmt)]_allVars

EnteredRecovery(t) == EventsAt(t, LAMBDA e : e.call = "attrGetStatement") # {}
EnteredDescribe(t) == EventsAt(t, LAMBDA e : e.call = "attrGetParamCount") # {}

\* C3 amended: the same, for a failure that comes before recovery and before
\* the post-execute describe (validation, bind flush, prefetch hint, protocol
\* execute, output flush, batch error collection).
C3_FailureFrameBeforeRecovery ==
    [][( /\ last'.op \in ExecOps /\ last'.rc = DPI_FAILURE /\ ~last'.crashed
         /\ ~EnteredRecovery(last'.trace) /\ ~EnteredDescribe(last'.trace) )
          => Frame(stmt') = Frame(stmt)]_allVars

C3_Witness ==
    /\ last.op = "execute" /\ last.rc = DPI_FAILURE
    /\ last.err.code = ORA_OTHER /\ last.err.site = "stmtExecute"
    /\ stmt.deleteFromCache
    /\ stmt.numQueryVars > 0 /\ Len(stmt.bindVars) > 0

\* C7: when a step of the batch error collection fails, executeMany fails
\* and no batch error is left: the count is 0 and there is no record.
C7_CollectionAllOrNothing ==
    (last.op = "executeMany" /\ last.fired.site \in BatchErrorSites)
       => /\ last.rc = DPI_FAILURE
          /\ stmt.numBatchErrors = 0
          /\ stmt.batchErrors = <<>>

\* C8 as stated: after an execute or executeMany, batch errors are there
\* only if this call was an executeMany in batch error mode in which an
\* iteration failed.
C8_NoStaleBatchErrors ==
    (last.op \in ExecOps /\ ~last.crashed /\ stmt.numBatchErrors # 0)
       => /\ last.op = "executeMany"
          /\ last.args.batchErrors
          /\ last.args.failed # {}

\* C9: an executeMany that reaches the server: in batch error mode it
\* succeeds and records one error per failed iteration, with the iteration's
\* 0-based index as row offset; without it a failed iteration fails the call
\* and no batch error is recorded.
C9_BatchErrorOffsets ==
    LET F == last.args.failed IN
    ( /\ last.op = "executeMany" /\ last.fired = NoFault /\ ~last.crashed
      /\ Events("stmtExecute") # {} )
    => /\ ( /\ last.args.batchErrors
            /\ \A k \in Events("stmtExecute") : last.trace[k].v = 0 ) =>
            /\ last.rc = DPI_SUCCESS
            /\ stmt.numBatchErrors = Cardinality(F)
            /\ Len(stmt.batchErrors) = Cardinality(F)
            /\ {stmt.batchErrors[i].offset : i \in 1..Len(stmt.batchErrors)} = F
       /\ (~last.args.batchErrors /\ F # {}) =>
            /\ last.rc = DPI_FAILURE
            /\ stmt.numBatchErrors = 0

C9_Witness ==
    /\ last.op = "executeMany" /\ last.rc = DPI_SUCCESS
    /\ last.args.batchErrors /\ last.args.numIters = 2 /\ last.args.failed = {1}
    /\ stmt.numBatchErrors = 1 /\ stmt.batchErrors[1].offset = 1

(***************************************************************************)
(* Properties of the bind registry.                                        *)
(***************************************************************************)
DirectBindOps == {"bindByPos", "bindByName"}
BindOps == DirectBindOps \cup {"bindValueByPos", "bindValueByName"}

\* the entry is the one for the locator the call named
HasLocator(entry, a) ==
    /\ entry.pos = a.pos
    /\ entry.nameLength = a.nameLength
    /\ entry.nameLength > 0 => entry.name = a.name

EntriesFor(bindVars, a) == {i \in 1..Len(bindVars) : HasLocator(bindVars[i], a)}

\* C4: a bind call that finds its locator bound to another resource A
\* releases A exactly once, before anything is done with the new resource B;
\* the number of entries stays the same, one entry has the locator, and it
\* refers to B when the call succeeds.
C4_RebindReleasesOnce ==
    [][\A i \in 1..Len(stmt.bindVars) :
         LET a == last'.args
             A == stmt.bindVars[i].var
             B == a.var
             rel == EventsAt(last'.trace, LAMBDA e : e.call = "release" /\ e.v = A)
             att == EventsAt(last'.trace, LAMBDA e : e.v = B) IN
         ( /\ last'.op \in BindOps
           /\ last'.op \in DirectBindOps \/ last'.rc = DPI_SUCCESS
           /\ HasLocator(stmt.bindVars[i], a)
           /\ A # NULL /\ A # B )
         => /\ Cardinality(rel) = 1
            /\ \A k \in rel, j \in att : k < j
            /\ Len(stmt'.bindVars) = Len(stmt.bindVars)
            /\ EntriesFor(stmt'.bindVars, a) = {i}
            /\ last'.rc = DPI_SUCCESS => stmt'.bindVars[i].var = B
      ]_allVars

C4_Witness ==
    /\ last.op = "bindByPos" /\ last.rc = DPI_SUCCESS
    /\ \E k \in 1..Len(last.trace) :
          last.trace[k].call = "release" /\ last.trace[k].v # last.args.var
    /\ \E i \in EntriesFor(stmt.bindVars, last.args) :
          stmt.bindVars[i].var = last.args.var
    /\ Len(stmt.bindVars) = 2

\* C5: a bind call that finds its locator bound to the same resource
\* succeeds without a protocol call or a reference count change, and leaves
\* the statement and the value resources as they were.
C5_SameResourceNoOp ==
    [][( /\ last'.op \in DirectBindOps
         /\ \E i \in EntriesFor(stmt.bindVars, last'.args) :
               stmt.bindVars[i].var = last'.args.var )
       => /\ last'.rc = DPI_SUCCESS
          /\ last'.trace = <<>>
          /\ stmt' = stmt /\ vars' = vars /\ oci' = oci
      ]_allVars

C5_Witness ==
    /\ last.op \in DirectBindOps /\ last.rc = DPI_SUCCESS
    /\ last.trace = <<>>
    /\ \E i \in EntriesFor(stmt.bindVars, last.args) :
          stmt.bindVars[i].var = last.args.var

\* C6: no two entries of the bind registry have the same locator, and every
\* entry has exactly one of a position and a name.
C6_UniqueLocators ==
    /\ \A i, j \in 1..Len(stmt.bindVars) :
          ( /\ stmt.bindVars[i].pos = stmt.bindVars[j].pos
            /\ stmt.bindVars[i].nameLength = stmt.bindVars[j].nameLength
            /\ stmt.bindVars[i].name = stmt.bindVars[j].name ) => i = j
    /\ \A i \in 1..Len(stmt.bindVars) :
          (stmt.bindVars[i].pos > 0) # (stmt.bindVars[i].nameLength > 0)

C6_Witness ==
    /\ last.op = "execute" /\ last.rc = DPI_SUCCESS
    /\ \E k \in 1..Len(last.trace) : last.trace[k].call = "stmtPrepare2"
    /\ Len(stmt.bindVars) = 2

(***************************************************************************)
(* Properties of the fetch window.                                         *)
(***************************************************************************)
FetchOps == {"fetch", "fetchRows"}

\* the call handed at least one row of the window to the caller
Delivered(l) == l.rc = DPI_SUCCESS /\ (l.out.found \/ l.out.numRows > 0)

ProtocolFetches(t) == EventsAt(t, LAMBDA e : e.call = "stmtFetch2")

\* C2: once a query has been executed successfully, a fetch or fetchRows call
\* that delivers a row while nothing has been fetched from the new result set
\* yet issues a protocol fetch first: no row buffered by an earlier execution
\* is delivered.
C2_FetchAfterExecute ==
    [][(last'.op \in FetchOps /\ ~oci.fetchedSinceExec /\ Delivered(last'))
          => ProtocolFetches(last'.trace) # {}]_allVars

\* C10: a fetchRows call issues no protocol fetch when the window still holds
\* an unconsumed row (bufferRowIndex < bufferRowCount), and at most one
\* protocol fetch otherwise.
C10_FetchRowsOnlyWhenExhausted ==
    [][last'.op = "fetchRows" =>
          /\ Cardinality(ProtocolFetches(last'.trace)) <= 1
          /\ stmt.bufferRowIndex < stmt.bufferRowCount
                => ProtocolFetches(last'.trace) = {}]_allVars

\* fetchRows has delivered rows of the current result set out of the window,
\* without a protocol fetch, and rows are left in the window
C10_Witness ==
    /\ last.op = "fetchRows" /\ last.rc = DPI_SUCCESS
    /\ last.out.numRows > 0
    /\ ProtocolFetches(last.trace) = {}
    /\ oci.fetchedSinceExec
    /\ stmt.bufferRowIndex < stmt.bufferRowCount

\* C11: a single-row fetch that succeeds issues a protocol fetch exactly
\* when the window is exhausted and more rows are known to exist, and a
\* failing one only then; so when a query is executed and read one row at a
\* time with array size N, its result set filling every batch, the protocol
\* fetches are those of the calls 1, N + 1, 2N + 1, ...
C11_FetchOnExhaustedWindow ==
    [][last'.op = "fetch" =>
          LET issued == ProtocolFetches(last'.trace) # {}
              due == stmt.bufferRowIndex >= stmt.bufferRowCount /\ stmt.hasRowsToFetch
              N == stmt.fetchArraySize IN
          /\ issued => due
          /\ last'.rc = DPI_SUCCESS => (issued <=> due)
          /\ ( /\ last'.rc = DPI_SUCCESS /\ oci.scan # NoScan
               /\ oci.rows % N = 0 /\ oci.scan <= oci.rows )
             => (issued <=> oci.scan % N = 0)]_allVars

(***************************************************************************)
(* Properties of scroll.                                                   *)
(***************************************************************************)
\* the desired row of the scroll that has just returned, and whether it lay
\* in the window the call found
ScrollDesired == DesiredRow([stmt |-> stmt], last'.args.mode, last'.args.offset,
                            last'.args.rowCountOffset)
ScrollInside ==
    /\ last'.args.mode # "last"
    /\ ScrollDesired >= stmt.bufferMinRow
    /\ ScrollDesired < stmt.bufferMinRow + stmt.bufferRowCount
ScrollCall == last'.op = "scroll" /\ last'.args.mode \in ScrollModes

\* the scroll found its row in the window: no call at all, and only the two
\* positions change
ScrollRepositions ==
    /\ last'.rc = DPI_SUCCESS
    /\ last'.trace = <<>>
    /\ stmt' = [stmt EXCEPT !.bufferRowIndex = ScrollDesired - stmt.bufferMinRow,
                            !.rowCount = ScrollDesired - 1]
    /\ vars' = vars /\ conn' = conn

\* the window is placed by the server's current position
ScrollPlaced ==
    /\ stmt'.rowCount = oci'.pos - stmt'.bufferRowCount
    /\ stmt'.bufferMinRow = stmt'.rowCount + 1
    /\ stmt'.bufferRowIndex = 0

\* C12: a scroll (mode other than last) whose desired row lies inside the
\* window [bufferMinRow, bufferMinRow + bufferRowCount) issues no protocol
\* call and only repositions bufferRowIndex and rowCount; a scroll whose
\* desired row lies outside the window, and every scroll in mode last,
\* issues exactly one positioned protocol fetch and on success sets
\* rowCount = currentPosition - bufferRowCount, bufferMinRow = rowCount + 1
\* and bufferRowIndex = 0.
C12_ScrollWindow ==
    [][ScrollCall =>
          /\ ScrollInside => ScrollRepositions
          /\ ~ScrollInside =>
                /\ Cardinality(ProtocolFetches(last'.trace)) = 1
                /\ last'.rc = DPI_SUCCESS => ScrollPlaced]_allVars

\* C12, amended: inside the window as stated; outside the window, and in
\* mode last, the scroll issues at most one positioned protocol fetch,
\* exactly one unless its pre-fetch step fails, and on a success that
\* fetched at least one row it places the window as stated.
C12_ScrollWindowWithRows ==
    [][ScrollCall =>
          /\ ScrollInside => ScrollRepositions
          /\ ~ScrollInside =>
                /\ Cardinality(ProtocolFetches(last'.trace)) <= 1
                /\ ( \/ last'.rc = DPI_SUCCESS
                     \/ last'.fired.site \in {"stmtFetch2", "attrGetCurrentPosition"} )
                   => Cardinality(ProtocolFetches(last'.trace)) = 1
                /\ (last'.rc = DPI_SUCCESS /\ stmt'.bufferRowCount > 0)
                   => ScrollPlaced]_allVars

\* a scroll left the window, fetched once and placed the new window past
\* the first row
C12_Witness ==
    /\ last.op = "scroll" /\ last.rc = DPI_SUCCESS
    /\ Cardinality(ProtocolFetches(last.trace)) = 1
    /\ stmt.bufferRowCount > 0 /\ stmt.bufferMinRow > 1
    /\ stmt.rowCount = oci.pos - stmt.bufferRowCount

\* C13: when the positioned fetch of a scroll returns zero rows, modes first
\* and last succeed and leave hasRowsToFetch false and rowCount,
\* bufferRowIndex and bufferMinRow 0; every other mode fails with
\* ScrollOutOfResultSet and never reports a zero-row success.
C13_ZeroRows ==
    [][( /\ ScrollCall
         /\ ProtocolFetches(last'.trace) # {}
         /\ last'.fired = NoFault
         /\ oci'.fetched = 0 ) =>
          IF last'.args.mode \in {"first", "last"}
          THEN /\ last'.rc = DPI_SUCCESS
               /\ ~stmt'.hasRowsToFetch
               /\ stmt'.rowCount = 0 /\ stmt'.bufferRowIndex = 0
               /\ stmt'.bufferMinRow = 0
          ELSE /\ last'.rc = DPI_FAILURE
               /\ last'.err.kind = "DPI_ERR_SCROLL_OUT_OF_RS"]_allVars

\* absolute offset 1 on an unfetched cursor over an empty result set
C13_Witness ==
    /\ last.op = "scroll" /\ last.args.mode = "absolute" /\ last.args.offset = 1
    /\ oci.rows = 0 /\ stmt.rowCount = 0 /\ stmt.bufferMinRow = 0
    /\ ProtocolFetches(last.trace) # {}
    /\ stmt.bufferRowCount = 0
    /\ last.err.kind = "DPI_ERR_SCROLL_OUT_OF_RS"

(***************************************************************************)
(* Properties of the open/closed guard.                                    *)
(***************************************************************************)
\* C14: close on a closed statement is stopped by the guard: it fails with
\* StatementClosed, makes no call, changes no field of the statement and
\* releases nothing (bound resources, query variables, protocol handle,
\* connection reference, open-child count) a second time.
C14_CloseClosedNoOp ==
    [][(last'.op = "close" /\ stmt.handle = NULL) =>
          /\ last'.rc = DPI_FAILURE
          /\ last'.err.kind = "DPI_ERR_STMT_CLOSED"
          /\ last'.trace = <<>>
          /\ stmt' = stmt /\ vars' = vars /\ conn' = conn /\ oci' = oci]_allVars

\* a second close of a statement whose first close freed a bound resource
C14_Witness ==
    /\ last.op = "close" /\ last.err.kind = "DPI_ERR_STMT_CLOSED"
    /\ stmt.handle = NULL /\ ~stmt.conn
    /\ conn.openChildCount = 0
    /\ stmt.bindVars = <<>>
    /\ \E v \in Vars : vars[v].st = "freed"

\* C15: a public function called on a closed statement fails with
\* StatementClosed, and called on an open statement whose connection is
\* closed or closing fails with NotConnected; in both cases the statement,
\* the value resources and the connection record stay as they were and no
\* call is made.
C15_GuardedOperations ==
    [][( /\ last'.op # "none"
         /\ (stmt.handle = NULL \/ ~conn.handle \/ conn.closing) ) =>
          /\ last'.rc = DPI_FAILURE
          /\ last'.err.kind = IF stmt.handle = NULL THEN "DPI_ERR_STMT_CLOSED"
                                                   ELSE "DPI_ERR_NOT_CONNECTED"
          /\ last'.trace = <<>>
          /\ stmt' = stmt /\ vars' = vars /\ conn' = conn]_allVars

\* an execute on an open statement with a described query, whose connection
\* is closing
C15_Witness ==
    /\ last.op = "execute" /\ last.err.kind = "DPI_ERR_NOT_CONNECTED"
    /\ stmt.handle # NULL /\ stmt.queryInfo
    /\ conn.handle /\ conn.closing

(***************************************************************************)
(* Properties of a failed execution.                                       *)
(***************************************************************************)
\* the steps of the recovery that come before the new handle is installed
\* (lines 966-981)
BeforeSwapSites == {"attrGetStatement", "stmtPrepare2", "attrGetStmtType",
                    "attrGetIsReturning", "stmtRelease"}

\* C16: when the recovery fails at a step before the new protocol handle is
\* swapped in (reading the SQL text, preparing the new handle, releasing the
\* old handle), execute reports the original stale-metadata error (code
\* 1007), not the error of the failing step.
C16_OriginalErrorSurfaces ==
    [][( /\ last'.op = "execute"
         /\ last'.rc = DPI_FAILURE
         /\ last'.fired.site \in BeforeSwapSites ) =>
          /\ last'.err.kind = "ORA"
          /\ last'.err.code = ORA_01007
          /\ last'.err.site = "stmtExecute"]_allVars

\* C17: when the protocol execute fails and the recovery is not taken, the
\* statement is marked for eviction from the statement cache if and only
\* if the error code is not 1 (unique constraint violated); a failure with
\* code 1 leaves the flag as it was.  A failure of the execute that the
\* recovery retries finds the flag already set by the recovery.
C17_EvictUnlessUniqueViolation ==
    [][( /\ last'.op \in ExecOps
         /\ last'.rc = DPI_FAILURE
         /\ last'.err.site = "stmtExecute" ) =>
          LET recovered == EventsAt(last'.trace,
                                    LAMBDA e : e.call = "attrGetStatement") # {} IN
          stmt'.deleteFromCache =
              (stmt.deleteFromCache \/ recovered \/ last'.err.code # ORA_00001)
      ]_allVars

\* an execute that failed with code 1 on a statement that stays in the cache
C17_Witness ==
    /\ last.op = "execute" /\ last.rc = DPI_FAILURE
    /\ last.err.site = "stmtExecute" /\ last.err.code = ORA_00001
    /\ Events("attrGetStatement") = {}
    /\ ~stmt.deleteFromCache

(***************************************************************************)
(* Properties of the getters.                                              *)
(***************************************************************************)
\* C18: getQueryValue succeeds only if fetch or fetchRows has delivered a
\* row since the most recent successful execute of the query, and then the
\* window it reads was fetched after that execute; requested earlier it
\* fails with QueryNotExecuted (no query variables exist) or NoRowFetched.
C18_ValueOnlyAfterDelivery ==
    [][last'.op = "getQueryValue" =>
          /\ last'.rc = DPI_SUCCESS => (oci.delivered /\ oci.fetchedSinceExec)
          /\ ( /\ ~oci.delivered
               /\ ~last'.args.isNull
               /\ stmt.handle # NULL
               /\ (stmt.queryVarsPtr => last'.args.pos \in 1..stmt.numQueryVars) )
             => /\ last'.rc = DPI_FAILURE
                /\ last'.err.kind = IF stmt.queryVarsPtr THEN "DPI_ERR_NO_ROW_FETCHED"
                                     ELSE "DPI_ERR_QUERY_NOT_EXECUTED"]_allVars

(***************************************************************************)
(* Properties of a statement bound to itself.                              *)
(***************************************************************************)
\* an entry of the bind registry holds a cursor that refers to the statement
SelfBound ==
    \E i \in 1..Len(stmt.bindVars) :
        stmt.bindVars[i].var # NULL /\ vars[stmt.bindVars[i].var].isSelfStmt

\* C19: executing a statement that has a bound cursor value referring to
\* the statement itself fails with NotSupported, and the call issues no
\* protocol execute.
C19_SelfBindRejected ==
    [][(last'.op \in ExecOps /\ SelfBound) =>
          /\ last'.rc = DPI_FAILURE
          /\ last'.err.kind = "DPI_ERR_NOT_SUPPORTED"
          /\ EventsAt(last'.trace, LAMBDA e : e.call = "stmtExecute") = {}
      ]_allVars

\* C19, amended: the call fails and issues no protocol execute; the error
\* is NotSupported unless an earlier check of the call fails first: the
\* connection check (NotConnected), executeMany's array size validation
\* (ArraySizeTooSmall) or the transfer of a value bound before the cursor.
C19_SelfBindNeverExecuted ==
    [][(last'.op \in ExecOps /\ SelfBound) =>
          /\ last'.rc = DPI_FAILURE
          /\ \/ last'.err.kind = "DPI_ERR_NOT_SUPPORTED"
             \/ last'.err.kind = "DPI_ERR_NOT_CONNECTED"
             \/ /\ last'.op = "executeMany"
                /\ last'.err.kind = "DPI_ERR_ARRAY_SIZE_TOO_SMALL"
             \/ /\ last'.fired.site = "setValue"
                /\ last'.err.kind = "DPI_ERR_SET_VALUE"
          /\ EventsAt(last'.trace, LAMBDA e : e.call = "stmtExecute") = {}
      ]_allVars

\* an execute rejected at the cursor, after the value bound before it was
\* transferred
C19_Witness ==
    /\ last.op = "execute" /\ last.err.kind = "DPI_ERR_NOT_SUPPORTED"
    /\ Len(stmt.bindVars) = 2
    /\ stmt.bindVars[2].var # NULL /\ vars[stmt.bindVars[2].var].isSelfStmt
    /\ stmt.bindVars[1].var # NULL /\ ~vars[stmt.bindVars[1].var].isSelfStmt
    /\ Events("stmtExecute") = {}

(***************************************************************************)
(* Properties of the validation errors.                                    *)
(***************************************************************************)
ValidationErrors ==
    {"DPI_ERR_NULL_POINTER_PARAMETER", "DPI_ERR_NOT_SUPPORTED",
     "DPI_ERR_QUERY_POSITION_INVALID", "DPI_ERR_ARRAY_SIZE_TOO_SMALL",
     "DPI_ERR_ARRAY_SIZE_TOO_BIG", "DPI_ERR_NO_ROW_FETCHED",
     "DPI_ERR_QUERY_NOT_EXECUTED", "DPI_ERR_STMT_CLOSED",
     "DPI_ERR_NOT_CONNECTED"}

\* the logged calls that are reference count changes of the statement's
\* own resources, not calls of the protocol layer
LocalCalls == {"varFree", "decrementOpenChildCount", "releaseConn"}

\* C20: a public operation that returns a validation error has issued no
\* protocol call (attribute get or set, describe, define, bind, execute,
\* fetch).
C20_ValidationBeforeProtocol ==
    [][(last'.op # "none" /\ last'.rc = DPI_FAILURE
            /\ last'.err.kind \in ValidationErrors) =>
          EventsAt(last'.trace, LAMBDA e : e.call \notin LocalCalls) = {}
      ]_allVars

(***************************************************************************)
(* Properties of the describe.                                             *)
(***************************************************************************)
\* the reads of the column count made by the call that has returned
DescribeReads(t) == EventsAt(t, LAMBDA e : e.call = "attrGetParamCount")

\* the column count the server reported to that call
Reported(t) == t[CHOOSE k \in DescribeReads(t) : TRUE].v

\* the column slots of statement s that hold resource v
SlotsOf(s, v) == {i \in 1..Len(s.queryVars) : s.queryVars[i] = v}

NoDescriptors(s) ==
    s.numQueryVars = 0 /\ s.queryVars = <<>> /\ ~s.queryVarsPtr /\ ~s.queryInfo

\* the descriptors and slots of s are those of a describe that reported n
DescriptorsFor(s, n) ==
    s.numQueryVars = n /\ Len(s.queryVars) = n /\ s.queryVarsPtr /\ s.queryInfo

\* a describe that found a count other than the cached one has released
\* every defined resource once per slot and left every new slot empty
Rebuilt ==
    /\ \A i \in 1..Len(stmt'.queryVars) : stmt'.queryVars[i] = NULL
    /\ \A v \in Vars : vars[v].st = "live" =>
           /\ vars'[v].refCount = vars[v].refCount - Cardinality(SlotsOf(stmt, v))
           /\ (vars'[v].st = "freed") = (vars'[v].refCount = 0)

\* C21: after a successful describe the descriptors and the column slots
\* number what the server reported; when that differs from the cached
\* count the old descriptors and defined resources were released and the
\* slots rebuilt; a failed describe leaves no descriptor.
C21_DescriptorCount ==
    [][(last'.op # "none" /\ DescribeReads(last'.trace) # {}) =>
          IF last'.fired.site \in DescribeSites
          THEN NoDescriptors(stmt')
          ELSE /\ DescriptorsFor(stmt', Reported(last'.trace))
               /\ (stmt.numQueryVars # Reported(last'.trace)
                      /\ last'.op = "execute") => Rebuilt
      ]_allVars

\* C21, amended: as C21, but a describe that fails at the read of the
\* column count leaves the cached descriptors and slots as they were when
\* the describe began (none, when the call's recovery had cleared them).
C21_DescriptorCountAfterRead ==
    [][(last'.op # "none" /\ DescribeReads(last'.trace) # {}) =>
          IF last'.fired.site = "attrGetParamCount"
          THEN IF EventsAt(last'.trace, LAMBDA e : e.call = "stmtPrepare2") # {}
               THEN NoDescriptors(stmt')
               ELSE stmt'.numQueryVars = stmt.numQueryVars
                      /\ stmt'.queryVars = stmt.queryVars
                      /\ stmt'.queryInfo = stmt.queryInfo
                      /\ vars' = vars
          ELSE IF last'.fired.site \in DescribeSites
          THEN NoDescriptors(stmt')
          ELSE /\ DescriptorsFor(stmt', Reported(last'.trace))
               /\ (stmt.numQueryVars # Reported(last'.trace)
                      /\ last'.op = "execute") => Rebuilt
      ]_allVars

\* a re-execute that found two columns where one was cached and defined
C21_Witness ==
    /\ last.op = "execute" /\ last.rc = DPI_SUCCESS
    /\ stmt.numQueryVars = 2 /\ stmt.queryVars = <<NULL, NULL>>
    /\ Events("release") # {}

(***************************************************************************)
(* Properties of the pre-fetch step.                                       *)
(***************************************************************************)
PreFetchOps == {"fetch", "fetchRows", "scroll"}

\* every column of s has a live resource of capacity at least the fetch
\* array size
AllColumnsFit(s, vs) ==
    \A i \in 1..s.numQueryVars :
        /\ s.queryVars[i] # NULL
        /\ vs[s.queryVars[i]].st = "live"
        /\ vs[s.queryVars[i]].maxArraySize >= s.fetchArraySize

\* some defined resource of s is smaller than the fetch array size
SomeSmaller(s, vs) ==
    \E i \in 1..s.numQueryVars :
        /\ s.queryVars[i] # NULL
        /\ vs[s.queryVars[i]].maxArraySize < s.fetchArraySize

EntriesOf(s, v) == {i \in 1..Len(s.bindVars) : s.bindVars[i].var = v}

\* C23: a resource the statement allocated in a call that failed is, when
\* the call returns, either destroyed with a count of zero or held by the
\* statement with one reference per column slot or bind entry that holds
\* it: it is never left alive without a holder.
C23_AllocatedThenReleased ==
    [][(last'.op # "none" /\ last'.rc = DPI_FAILURE) =>
          \A v \in Vars : (vars[v].st = "none" /\ vars'[v].st # "none") =>
              \/ /\ vars'[v].st = "freed" /\ vars'[v].refCount = 0
                 /\ SlotsOf(stmt', v) = {} /\ EntriesOf(stmt', v) = {}
              \/ /\ vars'[v].st = "live"
                 /\ SlotsOf(stmt', v) \cup EntriesOf(stmt', v) # {}
                 /\ vars'[v].refCount =
                        Cardinality(SlotsOf(stmt', v)) + Cardinality(EntriesOf(stmt', v))
      ]_allVars

(***************************************************************************)
(* Properties of close and of the final release.                           *)
(***************************************************************************)
\* the references statement s holds on resource v
HeldBy(s, v) == Cardinality(SlotsOf(s, v)) + Cardinality(EntriesOf(s, v))

\* C24: over explicit closes, succeeding or failing, and the final release:
\* the connection's reference is released exactly once and its open-child
\* count decremented exactly once, each bound or defined resource loses
\* exactly the references the statement held, a successful close leaves no
\* batch error, bind entry, query column or handle, and a resource the
\* caller still holds is not destroyed.
C24_CloseReleasesOnce ==
    [][(last'.op \in {"close", "release"}) =>
          /\ ~last'.crashed
          /\ conn'.refCount = IF stmt'.conn THEN conn.refCount
                               ELSE IF stmt.conn THEN conn.refCount - 1
                               ELSE conn.refCount
          /\ conn'.openChildCount = IF stmt'.handle # NULL THEN conn.openChildCount
                                     ELSE IF stmt.handle # NULL
                                     THEN conn.openChildCount - 1
                                     ELSE conn.openChildCount
          /\ stmt'.freed => ~stmt'.conn /\ stmt'.handle = NULL
          /\ \A v \in Vars : vars[v].st = "live" =>
                /\ vars'[v].refCount = vars[v].refCount - HeldBy(stmt, v) + HeldBy(stmt', v)
                /\ ~vars'[v].doubleFree
                /\ ~vars[v].byStmt => vars'[v].st = "live"
          /\ (last'.op = "close" /\ last'.rc = DPI_SUCCESS) =>
                /\ stmt'.numBatchErrors = 0 /\ stmt'.batchErrors = <<>>
                /\ stmt'.bindVars = <<>>
                /\ stmt'.numQueryVars = 0 /\ stmt'.queryVars = <<>>
                /\ stmt'.handle = NULL
      ]_allVars

RebindSites == {"convertToLob", "bindByPos", "bindByName", "bindAttr"}

\* the reference count changes the call made
Releases(t) == EventsAt(t, LAMBDA e : e.call = "release")
AddRefs(t) == EventsAt(t, LAMBDA e : e.call = "addRef")

\* C26: an execute that recovers binds every bound entry to the new handle
\* without taking or dropping a reference: the registry has the same
\* locators and resources and every resource the count it had before the
\* call; when a re-bind fails the statement's reference on that resource
\* is dropped exactly once and the execute fails.
C26_RebindTransfersReferences ==
    [][(last'.op = "execute" /\ EnteredRecovery(last'.trace) /\ ~last'.crashed) =>
          /\ AddRefs(last'.trace) = {}
          /\ last'.rc = DPI_SUCCESS =>
                /\ stmt'.bindVars = stmt.bindVars
                /\ vars' = vars
                /\ Releases(last'.trace) = {}
                /\ \A i \in 1..Len(stmt.bindVars) :
                      \E k \in 1..Len(last'.trace) :
                          /\ last'.trace[k].call \in {"bindByPos", "bindByName"}
                          /\ last'.trace[k].h = stmt'.handle
                          /\ last'.trace[k].v = stmt.bindVars[i].var
          /\ (last'.fired.site \in RebindSites) =>
                /\ last'.rc = DPI_FAILURE
                /\ Cardinality(Releases(last'.trace)) = 1
                /\ \E i \in 1..Len(stmt.bindVars) :
                      LET v == stmt.bindVars[i].var IN
                      /\ \A k \in Releases(last'.trace) : last'.trace[k].v = v
                      /\ vars[v].st = "live" =>
                            vars'[v].refCount = vars[v].refCount - 1
                      /\ \A w \in Vars \ {v} : vars'[w] = vars[w]
      ]_allVars

\* a recovery that bound two entries to the new handle
C26_Witness ==
    /\ last.op = "execute" /\ last.rc = DPI_SUCCESS
    /\ EnteredRecovery(last.trace)
    /\ Len(stmt.bindVars) = 2
    /\ Events("bindByPos") # {} /\ Events("bindByName") # {}
    /\ stmt.handle = 2

(***************************************************************************)
(* Properties of the handles in recovery.                                  *)
(***************************************************************************)
\* the calls of trace t made on protocol handle h
UsesOf(t, h) == EventsAt(t, LAMBDA e : e.h = h)

HandleReleases(t) == EventsAt(t, LAMBDA e : e.call = "stmtRelease")

\* C27: in recovery the new handle is prepared before the old one is
\* released, with the eviction mark; when recovery goes on past the release
\* the statement has the new handle, the old one was released exactly once
\* and no later call of this or any other operation is made on it, and the
\* batch errors and the query metadata are empty when the retry executes.
C27_OldHandleRetired ==
    [][(last'.op # "none") =>
          LET t == last'.trace IN
          /\ \A h \in Handles :
                (oci.handles[h].st = "released" /\ stmt.handle # h) => UsesOf(t, h) = {}
          /\ last'.op = "execute" =>
                \A k \in HandleReleases(t) :
                    /\ \E j \in 1..(k - 1) : t[j].call = "stmtPrepare2"
                    /\ t[k].v = 1
                    /\ stmt'.handle # t[k].h =>
                          /\ \E j \in 1..(k - 1) :
                                t[j].call = "stmtPrepare2" /\ t[j].h = stmt'.handle
                          /\ oci'.handles[stmt'.handle].st = "live"
                          /\ oci'.handles[t[k].h] = [st |-> "released", releases |-> 1]
                          /\ \A j \in (k + 1)..Len(t) : t[j].h # t[k].h
                          /\ stmt'.batchErrors = <<>> /\ stmt'.numBatchErrors = 0
                          /\ (\A j \in (k + 1)..Len(t) : t[j].call # "attrGetParamCount")
                                => NoDescriptors(stmt')
      ]_allVars

(***************************************************************************)
(* Properties of the row a scroll lands on.                                *)
(***************************************************************************)
\* the scroll left the statement on row d: the index points at it, and the
\* rows counted so far are the ones before it
LandedOn(s, d) == s.bufferMinRow + s.bufferRowIndex = d /\ s.rowCount = d - 1

ScrollLanded ==
    /\ ScrollCall /\ last'.args.mode # "last"
    /\ last'.rc = DPI_SUCCESS /\ stmt'.bufferRowCount > 0

\* C28: a successful scroll in mode next, prior, first, absolute or relative
\* that leaves a non-empty window leaves bufferMinRow + bufferRowIndex at the
\* desired row and rowCount at that row minus 1, the first scroll after an
\* execute included.
C28_ScrollLandsOnDesiredRow ==
    [][ScrollLanded => LandedOn(stmt', ScrollDesired)]_allVars

(***************************************************************************)
(* Properties of the rows fetchRows hands out.                             *)
(***************************************************************************)
\* the index the call reads the window from: 0 after a refill, the index
\* it found otherwise
ReadFrom == IF ProtocolFetches(last'.trace) # {} THEN 0 ELSE stmt.bufferRowIndex

\* the rows the window holds from that index on, after the refill if any
Unconsumed ==
    IF stmt'.bufferRowCount > ReadFrom THEN stmt'.bufferRowCount - ReadFrom ELSE 0

\* C29: a successful fetchRows(maxRows) returns min(maxRows, unconsumed rows
\* of the window after at most one refill) rows, advances bufferRowIndex and
\* rowCount by that number, reports moreRows when it returned fewer rows
\* than the window held, and returns no row with moreRows false only when
\* the window was exhausted and the refill brought no row or there was
\* nothing more to fetch.
C29_FetchRowsCount ==
    [][(last'.op = "fetchRows" /\ last'.rc = DPI_SUCCESS) =>
          LET n == last'.out.numRows
              maxRows == last'.args.n IN
          /\ Cardinality(ProtocolFetches(last'.trace)) <= 1
          /\ n = IF maxRows < Unconsumed THEN maxRows ELSE Unconsumed
          /\ stmt'.bufferRowIndex = ReadFrom + n
          /\ stmt'.rowCount = stmt.rowCount + n
          /\ n < Unconsumed => last'.out.moreRows
          /\ (n = 0 /\ ~last'.out.moreRows) =>
                /\ stmt.bufferRowIndex >= stmt.bufferRowCount
                /\ Unconsumed = 0
                /\ IF ProtocolFetches(last'.trace) # {}
                   THEN oci'.fetched = 0 ELSE ~stmt.hasRowsToFetch
      ]_allVars

\* fetchRows refilled the window and handed out fewer rows than it holds
C29_Witness ==
    /\ last.op = "fetchRows" /\ last.rc = DPI_SUCCESS
    /\ ProtocolFetches(last.trace) # {}
    /\ last.out.numRows = last.args.n /\ last.out.numRows > 0
    /\ stmt.bufferRowIndex < stmt.bufferRowCount
    /\ last.out.moreRows

(***************************************************************************)
(* Properties of define.                                                   *)
(***************************************************************************)
\* the resource column p of s holds, NULL when s has no such column
SlotAt(s, p) == IF p \in 1..Len(s.queryVars) THEN s.queryVars[p] ELSE NULL

DefineCalls(t) == EventsAt(t, LAMBDA e : e.call \in {"defineByPos", "defineDynamic"})

ReleasesOf(t, v) == {k \in Releases(t) : t[k].v = v}

\* the define call that has just returned, on an open statement
DefineReturns == last'.op = "define" /\ stmt.handle # NULL

\* C30: define of a column with the resource it holds makes no protocol
\* define call and changes no reference count; a successful define with
\* another resource releases the previous resource of the column exactly
\* once and takes exactly one reference on the new one; a position that is
\* 0 or above the column count fails with QueryPositionInvalid and leaves
\* every column slot as it was.
C30_DefineReplaces ==
    [][DefineReturns =>
          LET t == last'.trace
              p == last'.args.pos
              var == last'.args.var
              prev == SlotAt(stmt, p) IN
          /\ prev = var =>
                /\ last'.rc = DPI_SUCCESS
                /\ DefineCalls(t) = {}
                /\ AddRefs(t) = {} /\ Releases(t) = {}
                /\ vars' = vars
                /\ stmt'.queryVars = stmt.queryVars
          /\ (prev # var /\ last'.rc = DPI_SUCCESS) =>
                /\ SlotAt(stmt', p) = var
                /\ Cardinality(AddRefs(t)) = 1
                /\ \A k \in AddRefs(t) : t[k].v = var
                /\ vars'[var].refCount = vars[var].refCount + 1
                /\ Releases(t) = ReleasesOf(t, prev)
                /\ Cardinality(Releases(t)) = IF prev = NULL THEN 0 ELSE 1
                /\ prev # NULL => vars'[prev].refCount = vars[prev].refCount - 1
                /\ \A q \in 1..Len(stmt'.queryVars) :
                      q # p => stmt'.queryVars[q] = SlotAt(stmt, q)
          /\ ( /\ last'.fired = NoFault
               /\ (p = 0 \/ p > stmt'.numQueryVars) ) =>
                /\ last'.rc = DPI_FAILURE
                /\ last'.err.kind = "DPI_ERR_QUERY_POSITION_INVALID"
                /\ DefineCalls(t) = {}
                /\ vars' = vars
                /\ \A q \in 1..(MaxCols + 1) : SlotAt(stmt', q) = SlotAt(stmt, q)
      ]_allVars

\* a define has put a second resource in a column that held another one
C30_Witness ==
    /\ last.op = "define" /\ last.rc = DPI_SUCCESS
    /\ SlotAt(stmt, last.args.pos) = last.args.var
    /\ Cardinality(ReleasesOf(last.trace, 1)) + Cardinality(ReleasesOf(last.trace, 2)) = 1
    /\ Cardinality(AddRefs(last.trace)) = 1

(***************************************************************************)
(* Properties of the row count of a query.                                 *)
(***************************************************************************)
\* C31: for a query getRowCount returns the number of rows fetch and
\* fetchRows have delivered since the last successful execute: 0 when none
\* has been delivered since, never more than the rows of the result set of
\* that execution, and every delivered row adds exactly 1.
C31_RowCountSinceExecute ==
    [][/\ ( /\ last'.op = "getRowCount" /\ last'.rc = DPI_SUCCESS
            /\ stmt.statementType = "SELECT" ) =>
              /\ ~oci.delivered => last'.out.value = 0
              /\ last'.out.value <= oci.rows
       /\ (last'.op = "fetch" /\ Delivered(last')) =>
              stmt'.rowCount = stmt.rowCount + 1
       /\ (last'.op = "fetchRows" /\ Delivered(last')) =>
              stmt'.rowCount = stmt.rowCount + last'.out.numRows
      ]_allVars

(***************************************************************************)
(* Properties of array execution and recovery.                             *)
(***************************************************************************)
StaleMetadata(t) == EventsAt(t, LAMBDA e : e.call = "stmtExecute" /\ e.v = ORA_01007)

RecoverySteps(t) ==
    EventsAt(t, LAMBDA e : e.call \in {"attrGetStatement", "stmtPrepare2", "stmtRelease",
                                       "bindByPos", "bindByName"})

\* C32: an executeMany whose protocol execute fails with the stale-metadata
\* error does not prepare or bind again: it runs the protocol execute once,
\* marks the statement for eviction and fails with that error.
C32_NoRecoveryInExecuteMany ==
    [][(last'.op = "executeMany" /\ StaleMetadata(last'.trace) # {}) =>
          /\ RecoverySteps(last'.trace) = {}
          /\ Cardinality(EventsAt(last'.trace, LAMBDA e : e.call = "stmtExecute")) = 1
          /\ last'.rc = DPI_FAILURE
          /\ last'.err.code = ORA_01007
          /\ stmt'.deleteFromCache
          /\ stmt'.handle = stmt.handle
          /\ stmt'.bindVars = stmt.bindVars
      ]_allVars

\* an executeMany with bound resources failed with the stale-metadata
\* error without preparing again, and the statement is marked for eviction
C32_Witness ==
    /\ last.op = "executeMany" /\ last.rc = DPI_FAILURE
    /\ last.err.code = ORA_01007 /\ last.err.site = "stmtExecute"
    /\ Len(stmt.bindVars) > 0
    /\ stmt.deleteFromCache
    /\ Events("stmtPrepare2") = {}

(***************************************************************************)
(* Properties of the protocol handle.                                      *)
(***************************************************************************)
\* C33: when an operation has returned and the statement is open, its
\* handle is a protocol handle that has not been released, and no protocol
\* handle has been released more than once.
C33_HandleLiveAndReleasedOnce ==
    /\ stmt.handle # NULL => oci.handles[stmt.handle].st = "live"
    /\ \A h \in Handles : oci.handles[h].releases <= 1

(***************************************************************************)
(* Properties of the entries of the bind registry.                         *)
(***************************************************************************)
\* C34: when a bind, bindValue or execute call has returned, with success
\* or failure, every counted entry of the bind registry has a resource.
C34_EntriesHaveResources ==
    [][(last'.op \in BindOps \cup ExecOps) =>
          \A i \in 1..Len(stmt'.bindVars) : stmt'.bindVars[i].var # NULL]_allVars

(***************************************************************************)
(* Properties of the resources the statement refers to.                    *)
(***************************************************************************)
\* the resources the bind entries and the column slots of s point to
Referenced(s) ==
    {s.bindVars[i].var : i \in 1..Len(s.bindVars)} \cup
    {s.queryVars[i] : i \in 1..Len(s.queryVars)}

\* C35: no bind entry and no query column slot refers to a value resource
\* that has been destroyed; in particular, after a failed bindValueByPos or
\* bindValueByName none refers to the resource the call created and freed.
C35_NoDestroyedResource ==
    \A v \in Referenced(stmt) \ {NULL} : vars[v].st = "live"

\* the references on resource v that are not the statement's: the caller
\* keeps one on each resource it created
CallerRefs(v) == IF vars[v].byStmt THEN 0 ELSE 1

\* C36: after every operation the references the statement holds on a
\* value resource are as many as the bind entries and query column slots
\* that point to it; none points to a resource whose reference was dropped.
C36_ReferencesMatchPointers ==
    ~last.crashed =>
        \A v \in Vars :
            HeldBy(stmt, v) > 0 =>
                /\ vars[v].st = "live"
                /\ vars[v].refCount - CallerRefs(v) = HeldBy(stmt, v)

(***************************************************************************)
(* Properties of the values read from the window.                          *)
(***************************************************************************)
\* C37: when getQueryValue succeeds for column p the row slot it returns,
\* bufferRowIndex - 1, is below the capacity of the resource defined at
\* column p, also when the column was defined again after rows were
\* fetched.
C37_SlotWithinCapacity ==
    [][(last'.op = "getQueryValue" /\ last'.rc = DPI_SUCCESS) =>
          /\ last'.out.value = stmt.bufferRowIndex - 1
          /\ last'.out.value < vars[SlotAt(stmt, last'.args.pos)].maxArraySize
      ]_allVars

(***************************************************************************)
(* Properties of a scroll that fails.                                      *)
(***************************************************************************)
\* the position of the statement in its result set and its window
WindowOf(s) ==
    [rowCount |-> s.rowCount, bufferMinRow |-> s.bufferMinRow,
     bufferRowCount |-> s.bufferRowCount, bufferRowIndex |-> s.bufferRowIndex]

\* C38: a scroll that returns failure leaves rowCount, bufferMinRow,
\* bufferRowCount and bufferRowIndex as they were before the call.
C38_FailedScrollKeepsWindow ==
    [][(last'.op = "scroll" /\ last'.rc = DPI_FAILURE) =>
          WindowOf(stmt') = WindowOf(stmt)]_allVars

(***************************************************************************)
(* Properties of the unsigned arithmetic of scroll.                        *)
(***************************************************************************)
\* the scroll that has just returned took the in-window path
TookInWindowPath ==
    /\ ScrollCall /\ last'.args.mode # "last"
    /\ last'.rc = DPI_SUCCESS /\ last'.trace = <<>>

\* C39: with the desired row computed modulo 2^64, a scroll that takes the
\* in-window path ends with 0 <= bufferRowIndex < bufferRowCount and
\* rowCount = bufferMinRow + bufferRowIndex - 1 (modulo 2^64), and a
\* wrapped desired row is never taken for a row of the window.
C39_UnsignedInWindow ==
    [][TookInWindowPath =>
          /\ stmt'.bufferRowIndex \in 0..(stmt'.bufferRowCount - 1)
          /\ stmt'.rowCount = stmt'.bufferMinRow + stmt'.bufferRowIndex - 1
          /\ stmt'.bufferMinRow = stmt.bufferMinRow
          /\ stmt'.bufferRowCount = stmt.bufferRowCount
          /\ ScrollDesired >= 0
          /\ ScrollDesired = stmt'.bufferMinRow + stmt'.bufferRowIndex
      ]_allVars

\* a scroll to the absolute row -1, which is row 2^64 - 1, on a statement
\* that has fetched rows went to the server and was refused there
C39_Witness ==
    /\ last.op = "scroll" /\ last.args.mode = "absolute" /\ last.args.offset = -1
    /\ stmt.bufferMinRow >= 1 /\ stmt.rowCount >= 1
    /\ ProtocolFetches(last.trace) # {}
    /\ last.err.kind = "DPI_ERR_SCROLL_OUT_OF_RS"

(***************************************************************************)
(* Properties of the eviction mark.                                        *)
(***************************************************************************)
\* the releases of the statement's handle that a close makes
CloseReleases(t, h) == {k \in HandleReleases(t) : t[k].h = h}

\* C40: no operation clears the eviction mark once it is set; an execute
\* that recovered leaves it set on the statement with the new handle, and
\* a close of a marked statement that succeeds has released the handle
\* with the mark.
C40_EvictionMarkMonotonic ==
    [][/\ stmt.deleteFromCache => stmt'.deleteFromCache
       /\ ( /\ last'.op = "execute" /\ last'.rc = DPI_SUCCESS
            /\ EnteredRecovery(last'.trace) ) =>
              stmt'.deleteFromCache /\ stmt'.handle # stmt.handle
       /\ ( /\ last'.op = "close" /\ last'.rc = DPI_SUCCESS
            /\ stmt.deleteFromCache /\ stmt.handle # NULL ) =>
              /\ CloseReleases(last'.trace, stmt.handle) # {}
              /\ \A k \in CloseReleases(last'.trace, stmt.handle) : last'.trace[k].v = 1
      ]_allVars

\* a statement that recovered has been closed: the new handle was released
\* with the eviction mark
C40_Witness ==
    /\ last.op = "close" /\ last.rc = DPI_SUCCESS
    /\ stmt.handle = NULL /\ stmt.deleteFromCache
    /\ \E k \in HandleReleases(last.trace) :
          /\ last.trace[k].v = 1
          /\ last.trace[k].h # 1
          /\ oci.handles[1].st = "released"

====
